---- MODULE Spec2Model ----
(***************************************************************************)
(* rss-feeds-go: the fetch / summarize / cache pipeline of Client          *)
(* (client.go, gemini.go, helpers.go) over the in-memory cache of          *)
(* NewClient (Spec), the retry chain of Client.fetch (FetchSpec), and the  *)
(* two implementations of FeedsItemsCache, memCache and dbCache, driven    *)
(* by the same calls (CacheSpec).                                          *)
(*                                                                         *)
(* Texts (titles, summaries, error messages) are sequences of string       *)
(* tokens; fmt.Sprintf concatenation is \o, len(s) <= 0 is Len(s) = 0 and  *)
(* strings.Contains of a fixed marker is the presence of its token.        *)
(* Time is counted in whole days.                                          *)
(***************************************************************************)
EXTENDS Integers, Sequences, FiniteSets, TLC

VARIABLES
    now,        \* the wall clock (time.Now), in days
    cache,      \* memCache.items: GUID -> CachedItem
    reqCount,   \* Client._requestCountForAPIKeyRotation
    pc,         \* where the driver program is: idle, fetched, running, returned, panic
    fetchCall,  \* arguments and source responses of the last FetchFeeds call
    feeds,      \* feeds returned by FetchFeeds / handed to SummarizeAndCacheFeeds
    fetchErr,   \* err returned by FetchFeeds
    pos,        \* SummarizeAndCacheFeeds: number of items the loops have taken
    broke,      \* SummarizeAndCacheFeeds: `break outer` was executed
    errs,       \* SummarizeAndCacheFeeds: errs
    ret,        \* SummarizeAndCacheFeeds: the returned error
    log,        \* per item taken by the loop: the result of summarize, the sleep
    saves,      \* the cache.Save calls of the running SummarizeAndCacheFeeds
    last,       \* the path and backend response of the last summarize call
    onEntry,      \* SummarizeAndCacheFeeds: what held when it was called
    \* Client.fetch
    fpc,                  \* idle, calling (an activation is due), done
    budget,               \* remainingRetryCount of the outermost call
    remainingRetryCount,  \* remainingRetryCount of the activation that is due
    urlScrapper,          \* len(urlScrapper) > 0
    attempts,             \* the attempts made so far, in order
    fetchRet,             \* what the outermost call returned
    \* FeedsItemsCache: memCache is `cache`, dbCache is `db`
    db,         \* the rows of table cached_items, in rowid order
    savedAt,    \* per GUID held by memCache: the day its record was first stored
    op,         \* the last call made on both caches
    answer,     \* what the last call returned, from memCache and from dbCache
    calls,      \* Save, MarkAsRead and DeleteOlderThan1Month calls made so far
    ticks,      \* steps the clock has made
    \* helper functions called on their own
    applied,    \* the function called, its arguments, and what it returned
    \* goroutines sharing one Client
    goroutines  \* per goroutine: where it is in rotatedAPIKey, what it read and got

pipelineVars == <<reqCount, pc, fetchCall, feeds, fetchErr,
                  pos, broke, errs, ret, log, saves, last, onEntry>>

fetcherVars == <<fpc, budget, remainingRetryCount, urlScrapper, attempts, fetchRet>>

storeVars == <<db, savedAt, op, answer, calls, ticks>>

helperVars == <<applied>>

raceVars == <<goroutines>>

vars == <<now, cache, pipelineVars, fetcherVars, storeVars, helperVars, raceVars>>

(***************************************************************************)
(* Bounds of the model.                                                    *)
(***************************************************************************)
\* the clock runs from day 0 to day MaxNow
MaxNow == 2
\* generation calls made over the client's lifetime
MaxRequests == 3

(***************************************************************************)
(* Constants of the program.                                               *)
(***************************************************************************)
ErrorPrefixSummaryFailedWithError == "Summary failed with error"
summarizedContentEmpty == "Summarized content was empty."
defaultGoogleAIModel == "gemini-2.5-flash"
googleAIAPIKeys == <<"api-key-1", "api-key-2">>

(***************************************************************************)
(* Errors. A nil error is NilErr; every other error carries the class its  *)
(* chain unwraps to (errors.As) and its text.                              *)
(***************************************************************************)
NilErr == [kind |-> "nil", text |-> <<>>]

NewErr(kind, text) == [kind |-> kind, text |-> text]

\* fmt.Errorf("<prefix>: %w", err): the text grows, the chain keeps its class
Wrap(prefix, err) == [kind |-> err.kind, text |-> prefix \o err.text]

\* gt.IsModelOverloaded(err)
IsModelOverloaded(err) == err.kind = "overloaded"

\* gt.ErrToStr(err)
ErrToStr(err) == err.text

\* errors.Join(errs...) behind `if len(errs) > 0`
JoinErrs(es) ==
    IF Len(es) > 0 THEN [kind |-> "join", text |-> <<>>, errs |-> es] ELSE NilErr

(***************************************************************************)
(* Feed items (gofeed.Item). PublishedParsed is a *time.Time: <<>> is nil, *)
(* <<d>> points at day d.                                                  *)
(***************************************************************************)
NilTime == <<>>

\* Author is a *gofeed.Person: <<>> is nil
NilAuthor == <<>>

\* an entry without a title
ItemA ==
    [GUID |-> "guid-A", Title |-> <<>>,
     Link |-> "https://a.example/post",
     Links |-> <<"https://a.example/post", "https://a.example/comments">>,
     Author |-> <<[Name |-> "author-A", Email |-> "a@a.example"]>>,
     Description |-> <<"description-A">>, PublishedParsed |-> <<1>>]

ItemB ==
    [GUID |-> "guid-B", Title |-> <<"title-B">>,
     Link |-> "https://www.youtube.com/watch?v=B",
     Links |-> <<"https://www.youtube.com/watch?v=B">>,
     Author |-> NilAuthor,
     Description |-> <<"description-B">>, PublishedParsed |-> <<0>>]

\* a second entry with the GUID of ItemA, served by the other source
ItemA2 ==
    [GUID |-> "guid-A", Title |-> <<"title-A2">>,
     Link |-> "https://a.example/repost",
     Links |-> <<"https://a.example/repost">>,
     Author |-> <<[Name |-> "", Email |-> "a2@a.example"]>>,
     Description |-> <<"description-A2">>, PublishedParsed |-> <<2>>]

\* an entry whose publish date did not parse
ItemD ==
    [GUID |-> "guid-D", Title |-> <<"title-D">>,
     Link |-> "https://d.example/post",
     Links |-> <<"https://d.example/post">>,
     Author |-> <<[Name |-> "", Email |-> ""]>>,
     Description |-> <<"description-D">>, PublishedParsed |-> NilTime]

feedsURLs == <<"https://feed1.example/rss", "https://feed2.example/rss">>

\* the documents a feed source may serve
Documents(url) ==
    IF url = feedsURLs[1]
    THEN {<<ItemA, ItemB>>}
    ELSE {<<ItemA2>>, <<ItemA2, ItemD>>}

\* what fetching and parsing one source gives: an error or the parsed items;
\* the first source fails before a document arrives (no connection, a status
\* other than 200), the second when its document is parsed
SourceResults(url) ==
    {[err |-> NewErr("other", <<why, url>>), Items |-> <<>>] :
        why \in IF url = feedsURLs[1]
                THEN {"failed to fetch feeds from url", "http error 500 from url"}
                ELSE {"failed to parse feeds from"}}
    \cup {[err |-> NilErr, Items |-> d] : d \in Documents(url)}

\* ignoreItemsPublishedBeforeDays
RetentionDays == {0, 1}

(***************************************************************************)
(* memCache                                                                *)
(***************************************************************************)
EmptyCache == [g \in {} |-> NilErr]

\* memCache.Exists
Exists(c, guid) == guid \in DOMAIN c

\* time.Time.Format(time.RFC3339)
FormatRFC3339(t) == <<"RFC3339", t[1]>>

\* the zero time.Time (January 1 of year 1); any other time is <<day>>
ZeroTime == <<>>

\* gorm.DeletedAt of a row that is not deleted
NotDeleted == [Valid |-> FALSE, Time |-> ZeroTime]

\* the Author of the CachedItem that both Save functions build
authorOf(item) ==
    IF item.Author = NilAuthor THEN ""
    ELSE IF item.Author[1].Name # "" THEN item.Author[1].Name
    ELSE IF item.Author[1].Email # "" THEN item.Author[1].Email
    ELSE ""

\* the CachedItem memCache.Save builds; its gorm.Model is left zero
NewCachedItem(item, title, summary) ==
    [ID |-> 0, CreatedAt |-> ZeroTime, UpdatedAt |-> ZeroTime, DeletedAt |-> NotDeleted,
     Author |-> authorOf(item),
     Title |-> title,
     Link |-> IF Len(item.Links) > 0 THEN item.Links[1] ELSE "",
     Comments |-> IF Len(item.Links) > 1 THEN item.Links[2] ELSE "",
     GUID |-> item.GUID,
     PublishDate |-> IF item.PublishedParsed # NilTime
                     THEN FormatRFC3339(item.PublishedParsed) ELSE <<>>,
     Description |-> item.Description,
     Summary |-> summary,
     MarkedAsRead |-> FALSE]

\* memCache.Save
Save(c, item, title, summary) ==
    [g \in DOMAIN c \cup {item.GUID} |->
        IF g = item.GUID THEN NewCachedItem(item, title, summary) ELSE c[g]]

(***************************************************************************)
(* dbCache: the table, Exists and Save                                     *)
(***************************************************************************)
\* the rows gorm's soft-delete scope lets a statement see
Visible(rows) == {i \in DOMAIN rows : ~rows[i].DeletedAt.Valid}

\* dbCache.Exists
dbExists(rows, guid) == \E i \in Visible(rows) : rows[i].GUID = guid

\* the row an INSERT of dbCache.Save creates
NewRow(rows, item, title, summary, t) ==
    [NewCachedItem(item, title, summary) EXCEPT
        !.ID = Len(rows) + 1, !.CreatedAt = <<t>>, !.UpdatedAt = <<t>>]

\* dbCache.Save without its ON CONFLICT clause and without the unique index
dbSaveInserting(rows, item, title, summary, t) ==
    Append(rows, NewRow(rows, item, title, summary, t))

\* dbCache.Save: INSERT ... ON CONFLICT (guid) DO UPDATE SET title, summary
dbSave(rows, item, title, summary, t) ==
    IF \E i \in DOMAIN rows : rows[i].GUID = item.GUID
    THEN [i \in DOMAIN rows |->
            IF rows[i].GUID = item.GUID
            THEN [rows[i] EXCEPT !.Title = title, !.Summary = summary]
            ELSE rows[i]]
    ELSE Append(rows, NewRow(rows, item, title, summary, t))

\* the rows that dbCache.Exists can see, by GUID
visibleByGUID(rows) ==
    [g \in {rows[i].GUID : i \in Visible(rows)} |->
        rows[CHOOSE i \in Visible(rows) : rows[i].GUID = g]]

\* dbSaveOrNot writing the row of a failed statement all the same
dbSaveAnyway(rows, item, title, summary, t, written) ==
    dbSave(rows, item, title, summary, t)

\* the table after dbCache.Save: a statement that fails changes nothing, and
\* Save logs the error and returns
dbSaveOrNot(rows, item, title, summary, t, written) ==
    IF written THEN dbSave(rows, item, title, summary, t) ELSE rows

(***************************************************************************)
(* Client.FetchFeeds                                                       *)
(***************************************************************************)
\* time.Now().Add(time.Duration(-days) * 24 * time.Hour)
Cutoff(t, days) == t - days

\* time.Time.Before
Before(t, u) == t < u

\* DropCached deleting nothing
DropCachedNothing(c, items) == items

\* the first slices.DeleteFunc: drop what the cache already holds
DropCached(c, items) ==
    LET keep(it) == ~Exists(c, it.GUID) IN SelectSeq(items, keep)

\* item.PublishedParsed.Before(...) on a nil *time.Time: a nil dereference
AgeFilterPanics(items) ==
    \E i \in DOMAIN items : items[i].PublishedParsed = NilTime

\* the second slices.DeleteFunc: drop what was published too long ago
DropOld(items, t, days) ==
    LET keep(it) == ~Before(it.PublishedParsed[1], Cutoff(t, days))
    IN  SelectSeq(items, keep)

RECURSIVE fetchLoop(_, _, _, _, _, _, _)
\* fetchLoop returning at the first source that fails
fetchLoopStopping(k, results, c, t, ignoreAlreadyCached, days, acc) ==
    IF k > Len(feedsURLs) THEN acc
    ELSE IF results[k].err # NilErr
    THEN [acc EXCEPT !.errs = Append(@, results[k].err)]
    ELSE LET fetched == results[k].Items
             kept == IF ignoreAlreadyCached THEN DropCached(c, fetched) ELSE fetched
         IN  IF AgeFilterPanics(kept)
             THEN [acc EXCEPT !.panic = TRUE]
             ELSE fetchLoop(k + 1, results, c, t, ignoreAlreadyCached, days,
                            [acc EXCEPT !.feeds =
                                Append(@, [Items |-> DropOld(kept, t, days)])])

\* the loop over c.feedsURLs, from source k on
fetchLoop(k, results, c, t, ignoreAlreadyCached, days, acc) ==
    IF k > Len(feedsURLs) THEN acc
    ELSE IF results[k].err # NilErr
    THEN fetchLoop(k + 1, results, c, t, ignoreAlreadyCached, days,
                   [acc EXCEPT !.errs = Append(@, results[k].err)])
    ELSE LET fetched == results[k].Items
             kept == IF ignoreAlreadyCached THEN DropCached(c, fetched) ELSE fetched
         IN  IF AgeFilterPanics(kept)
             THEN [acc EXCEPT !.panic = TRUE]
             ELSE fetchLoop(k + 1, results, c, t, ignoreAlreadyCached, days,
                            [acc EXCEPT !.feeds =
                                Append(@, [Items |-> DropOld(kept, t, days)])])

\* one response per configured source
SourceResultSeqs ==
    {rs \in [1..Len(feedsURLs) -> UNION {SourceResults(feedsURLs[i]) : i \in 1..Len(feedsURLs)}] :
        \A i \in 1..Len(feedsURLs) : rs[i] \in SourceResults(feedsURLs[i])}

NoFetchCall ==
    [called |-> FALSE, ignoreAlreadyCached |-> FALSE, days |-> 0, at |-> 0, results |-> <<>>]

\* c.fetch was not called
NoFetch == [attempted |-> FALSE, err |-> NilErr, contentType |-> <<"", "">>]

NoLast == [path |-> "none", resp |-> "none", key |-> "", fetchFailed |-> FALSE,
           fetched |-> NoFetch]

\* SummarizeAndCacheFeeds was not called: `cached` are the GUIDs the cache of
\* the Client held at the call, `ignoreAlreadyCached` the argument of the
\* FetchFeeds call that made the feeds
NoEntry == [called |-> FALSE, ignoreAlreadyCached |-> FALSE, cached |-> {}]

\* FetchFeeds of a Client whose cache holds c
FetchFeedsOn(c) ==
    /\ pc \in {"idle", "returned"}
    /\ \E ignoreAlreadyCached \in BOOLEAN, days \in RetentionDays, results \in SourceResultSeqs :
          LET r == fetchLoop(1, results, c, now, ignoreAlreadyCached, days,
                             [panic |-> FALSE, feeds |-> <<>>, errs |-> <<>>])
          IN  /\ fetchCall' = [called |-> TRUE, ignoreAlreadyCached |-> ignoreAlreadyCached,
                               days |-> days, at |-> now, results |-> results]
              /\ IF r.panic
                 THEN pc' = "panic" /\ feeds' = <<>> /\ fetchErr' = NilErr
                 ELSE pc' = "fetched" /\ feeds' = r.feeds /\ fetchErr' = JoinErrs(r.errs)
    \* the locals of a finished SummarizeAndCacheFeeds are gone
    /\ pos' = 0 /\ broke' = FALSE /\ errs' = <<>> /\ ret' = NilErr
    /\ log' = <<>> /\ saves' = <<>> /\ last' = NoLast /\ onEntry' = NoEntry
    /\ UNCHANGED <<now, cache, reqCount>>
    /\ UNCHANGED <<fetcherVars, storeVars, helperVars, raceVars>>

\* FetchFeeds of a Client made by NewClient: the cache is a memCache
FetchFeeds == FetchFeedsOn(cache)

\* time passes between the calls of the driver program
Tick ==
    /\ pc \in {"idle", "fetched", "returned"}
    /\ now < MaxNow
    /\ now' = now + 1
    /\ UNCHANGED <<cache, reqCount, pc, fetchCall, feeds, fetchErr,
                   pos, broke, errs, ret, log, saves, last, onEntry>>
    /\ UNCHANGED <<fetcherVars, storeVars, helperVars, raceVars>>

(***************************************************************************)
(* The generative backend (gemini.go)                                      *)
(***************************************************************************)
GeneratedTitles == {<<>>, <<"translated title">>}
GeneratedSummaries == {<<>>, <<"generated summary">>}

\* what one generation call may come back with
BackendResponses ==
    {[kind |-> "ok", title |-> t, summary |-> s] :
        t \in GeneratedTitles, s \in GeneratedSummaries}
    \cup {[kind |-> k, title |-> <<>>, summary |-> <<>>] :
            k \in {"overloaded", "apierror", "nocandidate", "nilcontent"}}

\* the error of gtc.Generate
GenerateErr(resp) ==
    IF resp.kind = "overloaded"
    THEN NewErr("overloaded", <<"The model is overloaded. Please try again later.">>)
    ELSE IF resp.kind = "apierror"
    THEN NewErr("other", <<"API key not valid. Please pass a valid API key.">>)
    ELSE NilErr

\* rotatedAPIKey without the rotation
rotatedAPIKeyFirst(n) == googleAIAPIKeys[1]

\* Client.rotatedAPIKey: the key handed out at request count n
rotatedAPIKey(n) == googleAIAPIKeys[(n % Len(googleAIAPIKeys)) + 1]

\* Client.translateAndSummarize
translateAndSummarize(resp) ==
    IF GenerateErr(resp) # NilErr
    THEN [translatedTitle |-> <<>>, summarizedContent |-> <<>>, err |-> GenerateErr(resp)]
    ELSE IF resp.kind = "nocandidate"
    THEN [translatedTitle |-> <<>>, summarizedContent |-> <<>>, err |-> NilErr]
    ELSE IF resp.kind = "nilcontent"
    THEN [translatedTitle |-> <<>>, summarizedContent |-> <<>>,
          err |-> NewErr("other", <<"returned content of candidate is nil">>)]
    ELSE [translatedTitle |-> resp.title, summarizedContent |-> resp.summary, err |-> NilErr]

\* Client.translateAndSummarizeYouTube
translateAndSummarizeYouTube(resp) ==
    IF GenerateErr(resp) # NilErr
    THEN [translatedTitle |-> <<>>, summarizedContent |-> <<>>, err |-> GenerateErr(resp)]
    ELSE IF resp.kind = "nocandidate"
    THEN [translatedTitle |-> <<>>, summarizedContent |-> <<>>, err |-> NilErr]
    ELSE IF resp.kind = "nilcontent"
    THEN [translatedTitle |-> <<>>, summarizedContent |-> <<>>,
          err |-> NewErr("other", <<"returned content of candidate is nil">>)]
    ELSE [translatedTitle |-> resp.title, summarizedContent |-> resp.summary, err |-> NilErr]

\* summarizeURL returning what the structured call returns: a generated title
summarizeURLTranslating(title, resp) == translateAndSummarize(resp)

\* Client.summarizeURL: the text parts of the response, the title as given
summarizeURL(title, resp) ==
    IF GenerateErr(resp) # NilErr
    THEN [translatedTitle |-> title, summarizedContent |-> <<>>, err |-> GenerateErr(resp)]
    ELSE IF resp.kind = "nocandidate"
    THEN [translatedTitle |-> title, summarizedContent |-> <<>>, err |-> NilErr]
    ELSE IF resp.kind = "nilcontent"
    THEN [translatedTitle |-> title, summarizedContent |-> <<>>,
          err |-> NewErr("other", <<"returned content of candidate is nil">>)]
    ELSE [translatedTitle |-> title, summarizedContent |-> resp.summary, err |-> NilErr]

(***************************************************************************)
(* Content fetching (Client.fetch), by its final result                    *)
(***************************************************************************)
\* a content type is <<type, subtype>>
isTextFormattableContent(contentType) ==
    contentType[1] = "text" \/ contentType = <<"application", "json">>

isFileContent(contentType) == contentType = <<"application", "pdf">>

\* what Client.fetch returns once its attempts are over
FetchOutcomes ==
    {[err |-> NilErr, contentType |-> <<"text", "html">>],
     [err |-> NilErr, contentType |-> <<"application", "pdf">>],
     [err |-> NewErr("fetch", <<"failed to fetch contents from url">>),
      contentType |-> <<"", "">>]}

(***************************************************************************)
(* Client.summarize                                                        *)
(***************************************************************************)
YouTubeURLs == {ItemB.Link}

isYouTubeURL(url) == url \in YouTubeURLs

\* summarizePath handing a fetched file to the URL-context call
summarizePathTextOnly(url, fetched) ==
    IF isYouTubeURL(url) THEN "video"
    ELSE IF fetched.err = NilErr /\ isTextFormattableContent(fetched.contentType) THEN "text"
    ELSE "url"

\* the path summarize takes for a url and a fetch result
summarizePath(url, fetched) ==
    IF isYouTubeURL(url) THEN "video"
    ELSE IF fetched.err = NilErr
    THEN IF isTextFormattableContent(fetched.contentType) THEN "text"
         ELSE IF isFileContent(fetched.contentType) THEN "file"
         ELSE "unsupported"
    ELSE "url"

\* summarizeFailed returning the error flattened (%s instead of the error itself)
summarizeFailedFlattened(title, err) ==
    [translatedTitle |-> title,
     summarizedContent |-> <<ErrorPrefixSummaryFailedWithError, ": ">> \o ErrToStr(err),
     err |-> NewErr("other", ErrToStr(err))]

\* the last line of summarize: the title as given, the error message
summarizeFailed(title, err) ==
    [translatedTitle |-> title,
     summarizedContent |-> <<ErrorPrefixSummaryFailedWithError, ": ">> \o ErrToStr(err),
     err |-> err]

\* the `FIXME: sometimes translated/summarized results are empty` patches
orTitle(translatedTitle, title) ==
    IF Len(translatedTitle) <= 0 THEN title ELSE translatedTitle

orPlaceholder(summarizedContent) ==
    IF Len(summarizedContent) <= 0 THEN <<summarizedContentEmpty>> ELSE summarizedContent

\* the youtube branch of summarize
summarizeVideo(title, resp) ==
    LET r == translateAndSummarizeYouTube(resp)
    IN  IF r.err = NilErr THEN r ELSE summarizeFailed(title, r.err)

\* the text and the file branches of summarize
summarizeFetched(title, resp) ==
    LET r == translateAndSummarize(resp)
    IN  IF r.err = NilErr
        THEN [translatedTitle |-> orTitle(r.translatedTitle, title),
              summarizedContent |-> orPlaceholder(r.summarizedContent),
              err |-> NilErr]
        ELSE summarizeFailed(title, r.err)

\* summarizeWithURLContext without the fallback: a failed fetch is the item's error
summarizeWithoutFallback(title, resp) ==
    summarizeFailed(title, NewErr("fetch", <<"failed to fetch contents from url">>))

\* the branch of summarize taken when the fetch failed
summarizeWithURLContext(title, resp) ==
    LET r == summarizeURL(title, resp)
    IN  IF r.err = NilErr
        THEN [translatedTitle |-> r.translatedTitle,
              summarizedContent |-> orPlaceholder(r.summarizedContent),
              err |-> NilErr]
        ELSE summarizeFailed(title, r.err)

summarize(title, url, fetched, resp) ==
    LET path == summarizePath(url, fetched)
    IN  IF path = "video" THEN summarizeVideo(title, resp)
        ELSE IF path \in {"text", "file"} THEN summarizeFetched(title, resp)
        ELSE IF path = "unsupported"
        THEN summarizeFailed(title, NewErr("other", <<"not a summarizable content type">>))
        ELSE summarizeWithURLContext(title, resp)

\* generationCalls of a summarize that tries the generation a second time
generationCallsRetrying(path) ==
    IF path = "unsupported" THEN 0 ELSE IF path \in {"text", "file"} THEN 2 ELSE 1

\* the number of generation calls (rotatedAPIKey) summarize makes on a path
generationCalls(path) == IF path = "unsupported" THEN 0 ELSE 1

(***************************************************************************)
(* Client.SummarizeAndCacheFeeds                                           *)
(***************************************************************************)
\* the items in the order the two loops take them: feed f, index i of n
RECURSIVE flatFrom(_, _)
flatFrom(fs, f) ==
    IF f > Len(fs) THEN <<>>
    ELSE [i \in 1..Len(fs[f].Items) |->
            [f |-> f, i |-> i, n |-> Len(fs[f].Items), item |-> fs[f].Items[i]]]
         \o flatFrom(fs, f + 1)

Flat(fs) == flatFrom(fs, 1)

\* breaksOuter without the overload branch: the loop never breaks
breaksOuterNever(err) == FALSE

\* `if gt.IsModelOverloaded(err) { ...; break outer }`
breaksOuter(err) == err # NilErr /\ IsModelOverloaded(err)

\* itemError without the item's title and link
itemErrorBare(err, item) == err

\* what is appended to errs for a failed item
itemError(err, item) ==
    IF IsModelOverloaded(err) THEN err
    ELSE Wrap(<<"failed to summarize item '">> \o item.Title
              \o <<"' (", item.Link, "): ">>, err)

\* the footer of a successful summary
summarizedWith(model) == <<"\n\n(summarized with **", model, "**, ", "<time.Now>", ")">>

\* contentToCache caching the error message without the original description
contentToCacheBare(r, item) ==
    IF r.err # NilErr
    THEN r.summarizedContent
    ELSE r.summarizedContent \o summarizedWith(defaultGoogleAIModel)

\* the summarizedContent handed to cache.Save
contentToCache(r, item) ==
    IF r.err # NilErr
    THEN r.summarizedContent \o <<"\n\n">> \o item.Description
    ELSE r.summarizedContent \o summarizedWith(defaultGoogleAIModel)

\* titleToCache saving the feed's title instead of the one summarize returned
titleToCacheOriginal(r, item) == item.Title

\* the title handed to cache.Save
titleToCache(r, item) == r.translatedTitle

\* sleepsAfter sleeping after the last item of a feed as well
sleepsAfterEvery(i, n) == TRUE

\* `if i < len(f.Items)-1`, with i counted from 1
sleepsAfter(i, n) == i < n

\* the call: the loops have not started
SummarizeAndCacheFeeds ==
    /\ pc = "fetched"
    /\ reqCount + Len(Flat(feeds)) <= MaxRequests
    /\ pc' = "running"
    /\ pos' = 0 /\ broke' = FALSE /\ errs' = <<>> /\ ret' = NilErr
    /\ log' = <<>> /\ saves' = <<>> /\ last' = NoLast
    /\ onEntry' = [called |-> TRUE, ignoreAlreadyCached |-> fetchCall.ignoreAlreadyCached,
                  cached |-> (DOMAIN cache) \cup (DOMAIN visibleByGUID(db))]
    /\ fetchCall' = NoFetchCall
    /\ UNCHANGED <<now, cache, reqCount, feeds, fetchErr>>
    /\ UNCHANGED <<fetcherVars, storeVars, helperVars, raceVars>>

\* one pass of the inner loop body, of a Client with a dbCache or with a
\* memCache; the write of dbCache.Save can fail, memCache.Save has none
SummarizeItemOf(withDB) ==
    /\ pc = "running" /\ ~broke /\ pos < Len(Flat(feeds))
    /\ \E fetched \in FetchOutcomes, resp \in BackendResponses, written \in (IF withDB THEN BOOLEAN ELSE {TRUE}) :
          LET cur == Flat(feeds)[pos + 1]
              item == cur.item
              path == summarizePath(item.Link, fetched)
              r == summarize(item.Title, item.Link, fetched, resp)
              stop == breaksOuter(r.err)
          IN  /\ errs' = IF r.err # NilErr THEN Append(errs, itemError(r.err, item)) ELSE errs
              /\ broke' = stop
              /\ IF stop THEN UNCHANGED <<cache, db>>
                 ELSE IF withDB
                 THEN /\ db' = dbSaveOrNot(db, item, titleToCache(r, item),
                                            contentToCache(r, item), now, written)
                      /\ UNCHANGED cache
                 ELSE /\ cache' = Save(cache, item, titleToCache(r, item),
                                       contentToCache(r, item))
                      /\ UNCHANGED db
              /\ saves' = IF stop THEN saves
                          ELSE Append(saves, [pos |-> pos + 1, GUID |-> item.GUID,
                                              Title |-> titleToCache(r, item),
                                              Summary |-> contentToCache(r, item),
                                              written |-> written])
              /\ log' = Append(log, [item |-> item, res |-> r,
                                     slept |-> ~stop /\ sleepsAfter(cur.i, cur.n)])
              /\ reqCount' = reqCount + generationCalls(path)
              /\ last' = [path |-> path, resp |-> resp.kind,
                          key |-> IF generationCalls(path) > 0
                                  THEN rotatedAPIKey(reqCount) ELSE "",
                          fetchFailed |-> ~isYouTubeURL(item.Link) /\ fetched.err # NilErr,
                          fetched |-> IF isYouTubeURL(item.Link) THEN NoFetch
                                      ELSE [attempted |-> TRUE, err |-> fetched.err,
                                            contentType |-> fetched.contentType]]
    /\ pos' = pos + 1
    /\ UNCHANGED <<now, pc, fetchCall, feeds, fetchErr, ret, onEntry>>
    /\ UNCHANGED <<fetcherVars, savedAt, op, answer, calls, ticks, helperVars, raceVars>>

\* the loop body of a Client made by NewClient
SummarizeItem == SummarizeItemOf(FALSE)

\* after the loops, or after `break outer`
SummarizeReturn ==
    /\ pc = "running"
    /\ broke \/ pos = Len(Flat(feeds))
    /\ ret' = JoinErrs(errs)
    /\ pc' = "returned"
    /\ UNCHANGED <<now, cache, reqCount, fetchCall, feeds, fetchErr,
                   pos, broke, errs, log, saves, last, onEntry>>
    /\ UNCHANGED <<fetcherVars, storeVars, helperVars, raceVars>>

(***************************************************************************)
(* FeedsItemsCache: the rest of memCache, and dbCache. The table of        *)
(* dbCache is a sequence of rows in rowid order; CachedItem embeds         *)
(* gorm.Model, so gorm fills ID, CreatedAt and UpdatedAt, deletes softly   *)
(* (DeletedAt) and leaves soft-deleted rows out of every query and update. *)
(* The database answers every statement: no call fails with an I/O error.  *)
(***************************************************************************)
\* the steps the clock makes between the calls
MaxTicks == 2
\* the Save, MarkAsRead and DeleteOlderThan1Month calls of a run
MaxCalls == 3
\* listLimit of cache.go is 100; here it is scaled to stores of two records
listLimit == 1

\* time.Time.Before
TimeBefore(t, u) == u # ZeroTime /\ (t = ZeroTime \/ t[1] < u[1])

\* time.Now().Add(-30 * 24 * time.Hour)
MonthAgo(t) == <<t - 30>>

\* the orders in which the members of S can be enumerated
Orders(S) ==
    {p \in [1..Cardinality(S) -> S] :
        \A a, b \in 1..Cardinality(S) : a # b => p[a] # p[b]}

\* the zero CachedItem
ZeroCachedItem ==
    [ID |-> 0, CreatedAt |-> ZeroTime, UpdatedAt |-> ZeroTime, DeletedAt |-> NotDeleted,
     Author |-> "", Title |-> <<>>, Link |-> "", Comments |-> "", GUID |-> "",
     PublishDate |-> <<>>, Description |-> <<>>, Summary |-> <<>>,
     MarkedAsRead |-> FALSE]

\* memCache.Fetch: <<>> is nil
Fetch(c, guid) == IF guid \in DOMAIN c THEN <<c[guid]>> ELSE <<>>

\* memCache.MarkAsRead with Summary left out of the record it rebuilds
MarkAsReadForgetting(c, guid) ==
    IF guid \in DOMAIN c
    THEN [c EXCEPT ![guid].MarkedAsRead = TRUE, ![guid].Summary = <<>>]
    ELSE c

\* memCache.MarkAsRead
MarkAsRead(c, guid) ==
    IF guid \in DOMAIN c
    THEN [c EXCEPT ![guid] =
            [ID |-> 0, CreatedAt |-> ZeroTime, UpdatedAt |-> ZeroTime,
             DeletedAt |-> NotDeleted,
             Title |-> @.Title, Link |-> @.Link, Comments |-> @.Comments,
             GUID |-> guid, Author |-> @.Author, PublishDate |-> @.PublishDate,
             Description |-> @.Description, Summary |-> @.Summary,
             MarkedAsRead |-> TRUE]]
    ELSE c

\* memCache.List: the results it can give, one per iteration order of the map
List(c, includeItemsMarkedAsRead) ==
    LET keep(v) == includeItemsMarkedAsRead \/ ~v.MarkedAsRead
    IN  {SelectSeq([i \in 1..Cardinality(DOMAIN c) |-> c[p[i]]], keep) :
            p \in Orders(DOMAIN c)}

\* memCache.DeleteOlderThan1Month
DeleteOlderThan1Month(c, t) ==
    LET kept == {g \in DOMAIN c : ~TimeBefore(c[g].CreatedAt, MonthAgo(t))}
    IN  [g \in kept |-> c[g]]

\* dbCache.Fetch: Find runs before Where is added, so the statement is
\* SELECT ... LIMIT 1 without the guid; which row it gives is up to SQLite,
\* and no row leaves the zero CachedItem behind the returned pointer
dbFetch(rows, guid) ==
    IF Visible(rows) = {} THEN {<<ZeroCachedItem>>}
    ELSE {<<rows[i]>> : i \in Visible(rows)}

\* dbCache.MarkAsRead: gorm's Update also sets updated_at
dbMarkAsRead(rows, guid, t) ==
    [i \in DOMAIN rows |->
        IF i \in Visible(rows) /\ rows[i].GUID = guid
        THEN [rows[i] EXCEPT !.MarkedAsRead = TRUE, !.UpdatedAt = <<t>>]
        ELSE rows[i]]

\* dbCache.List: ORDER BY created_at DESC leaves the order of ties open
dbList(rows, includeItemsMarkedAsRead) ==
    LET matching == {i \in Visible(rows) :
                        includeItemsMarkedAsRead \/ ~rows[i].MarkedAsRead}
        n == Cardinality(matching)
        sorted == {p \in Orders(matching) :
                      \A a, b \in 1..n :
                          a < b => ~TimeBefore(rows[p[a]].CreatedAt, rows[p[b]].CreatedAt)}
        limit == IF includeItemsMarkedAsRead /\ n > listLimit THEN listLimit ELSE n
    IN  {[j \in 1..limit |-> rows[p[j]]] : p \in sorted}

\* dbCache.DeleteOlderThan1Month: a soft delete
dbDeleteOlderThan1Month(rows, t) ==
    [i \in DOMAIN rows |->
        IF i \in Visible(rows) /\ TimeBefore(rows[i].CreatedAt, MonthAgo(t))
        THEN [rows[i] EXCEPT !.DeletedAt = [Valid |-> TRUE, Time |-> <<t>>]]
        ELSE rows[i]]

(***************************************************************************)
(* The callers of the two caches: every call is made on memCache and on    *)
(* dbCache, both created empty.                                            *)
(***************************************************************************)
\* the items handed to Save
CacheItems == {ItemA, ItemA2, ItemB}

\* the title and the summary handed to Save
CachedTexts ==
    {[title |-> <<"title-1">>, summary |-> <<"summary-1">>],
     [title |-> <<"title-2">>, summary |-> <<"summary-2">>]}

\* the GUIDs handed to Exists, Fetch and MarkAsRead
GUIDs == {it.GUID : it \in CacheItems}

\* the days the clock may step at once
TickDays == {1, 30}

NoOp ==
    [name |-> "none", guid |-> "", includeItemsMarkedAsRead |-> FALSE,
     inMem |-> FALSE, inDB |-> FALSE]

NoAnswer == [mem |-> <<>>, db |-> <<>>]

\* the call as the callers see it: its name, its argument, and whether the
\* GUID was stored when it was made
Call(name, guid, includeItemsMarkedAsRead) ==
    [name |-> name, guid |-> guid,
     includeItemsMarkedAsRead |-> includeItemsMarkedAsRead,
     inMem |-> Exists(cache, guid), inDB |-> dbExists(db, guid)]

StoreInit ==
    /\ db = <<>>
    /\ savedAt = [g \in {} |-> 0]
    /\ op = NoOp
    /\ answer = NoAnswer
    /\ calls = 0
    /\ ticks = 0

Elapse ==
    /\ ticks < MaxTicks
    /\ \E d \in TickDays : now' = now + d
    /\ ticks' = ticks + 1
    /\ UNCHANGED <<cache, db, savedAt, op, answer, calls, pipelineVars, fetcherVars, helperVars, raceVars>>

CallSave ==
    /\ calls < MaxCalls
    /\ \E item \in CacheItems, txt \in CachedTexts :
          /\ cache' = Save(cache, item, txt.title, txt.summary)
          /\ db' = dbSave(db, item, txt.title, txt.summary, now)
          /\ savedAt' = [g \in DOMAIN savedAt \cup {item.GUID} |->
                            IF g \in DOMAIN savedAt THEN savedAt[g] ELSE now]
          /\ op' = Call("Save", item.GUID, FALSE)
    /\ answer' = NoAnswer
    /\ calls' = calls + 1
    /\ UNCHANGED <<now, ticks, pipelineVars, fetcherVars, helperVars, raceVars>>

CallMarkAsRead ==
    /\ calls < MaxCalls
    /\ \E guid \in GUIDs :
          /\ cache' = MarkAsRead(cache, guid)
          /\ db' = dbMarkAsRead(db, guid, now)
          /\ op' = Call("MarkAsRead", guid, FALSE)
    /\ answer' = NoAnswer
    /\ calls' = calls + 1
    /\ UNCHANGED <<now, savedAt, ticks, pipelineVars, fetcherVars, helperVars, raceVars>>

CallDeleteOlderThan1Month ==
    /\ calls < MaxCalls
    /\ cache' = DeleteOlderThan1Month(cache, now)
    /\ db' = dbDeleteOlderThan1Month(db, now)
    /\ savedAt' = [g \in DOMAIN cache' |-> savedAt[g]]
    /\ op' = Call("DeleteOlderThan1Month", "", FALSE)
    /\ answer' = NoAnswer
    /\ calls' = calls + 1
    /\ UNCHANGED <<now, ticks, pipelineVars, fetcherVars, helperVars, raceVars>>

\* the calls that only read. One made straight after another overwrites its
\* answer and reaches the state it reaches when made first, so the callers
\* make one between two steps of the stores or the clock
Queries == {"Exists", "Fetch", "List"}

CallExists ==
    /\ op.name \notin Queries
    /\ \E guid \in GUIDs :
          /\ op' = Call("Exists", guid, FALSE)
          /\ answer' = [mem |-> Exists(cache, guid), db |-> dbExists(db, guid)]
    /\ UNCHANGED <<now, cache, db, savedAt, calls, ticks, pipelineVars, fetcherVars, helperVars, raceVars>>

CallFetch ==
    /\ op.name \notin Queries
    /\ \E guid \in GUIDs :
          \E fromDB \in dbFetch(db, guid) :
              /\ op' = Call("Fetch", guid, FALSE)
              /\ answer' = [mem |-> Fetch(cache, guid), db |-> fromDB]
    /\ UNCHANGED <<now, cache, db, savedAt, calls, ticks, pipelineVars, fetcherVars, helperVars, raceVars>>

CallList ==
    /\ op.name \notin Queries
    /\ \E includeItemsMarkedAsRead \in BOOLEAN :
          \E fromMem \in List(cache, includeItemsMarkedAsRead),
             fromDB \in dbList(db, includeItemsMarkedAsRead) :
                /\ op' = Call("List", "", includeItemsMarkedAsRead)
                /\ answer' = [mem |-> fromMem, db |-> fromDB]
    /\ UNCHANGED <<now, cache, db, savedAt, calls, ticks, pipelineVars, fetcherVars, helperVars, raceVars>>

CacheNext ==
    \/ Elapse
    \/ CallSave
    \/ CallMarkAsRead
    \/ CallDeleteOlderThan1Month
    \/ CallExists
    \/ CallFetch
    \/ CallList

(***************************************************************************)
(* The driver program with a Client made by NewClientWithDB: the cache is  *)
(* a dbCache, and the write of Save can fail                               *)
(***************************************************************************)
FetchFeedsDB == FetchFeedsOn(visibleByGUID(db))

SummarizeItemDB == SummarizeItemOf(TRUE)

\* the calls of the driver program, all made on one day
DBNext ==
    \/ FetchFeedsDB
    \/ SummarizeAndCacheFeeds
    \/ SummarizeItemDB
    \/ SummarizeReturn

(***************************************************************************)
(* Functions called on their own: one call at a time, then its return      *)
(***************************************************************************)
NoCall == [fn |-> "none"]

Idle == applied = NoCall

Return ==
    /\ ~Idle
    /\ applied' = NoCall
    /\ UNCHANGED <<now, cache, pipelineVars, fetcherVars, storeVars, raceVars>>

(***************************************************************************)
(* gemini.go: what the adapter makes of a genai.GenerateContentResponse    *)
(***************************************************************************)
\* parts of a returned content
MaxParts == 2

fnNameTranslateTitleAndSummarizeContent == "translateTitleAndSummarizeContent"
fnParamNameTranslatedTitle == "translatedTitle"
fnParamNameSummarizedContent == "summarizedContent"

\* values of a function-call argument: a string, an empty string, not a string
ArgValues ==
    {[type |-> "string", value |-> <<"generated text">>],
     [type |-> "string", value |-> <<>>],
     [type |-> "number", value |-> <<>>]}

\* fn.Args: a map from some of the parameter names to values
ArgMaps ==
    UNION {[names -> ArgValues] :
              names \in SUBSET {fnParamNameTranslatedTitle, fnParamNameSummarizedContent}}

NilFunctionCall == <<>>

\* genai.Part: a text part, or a part holding a function call
ResponseParts ==
    {[Text |-> <<"some text">>, FunctionCall |-> NilFunctionCall]}
    \cup {[Text |-> <<>>, FunctionCall |-> <<[Name |-> n, Args |-> a]>>] :
             n \in {fnNameTranslateTitleAndSummarizeContent, "someOtherFunction"},
             a \in ArgMaps}

PartSeqs == UNION {[1..n -> ResponseParts] : n \in 0..MaxParts}

NilContent == <<>>
FinishReasonUnspecified == "FINISH_REASON_UNSPECIFIED"

\* genai.Candidate
ResponseCandidates ==
    {[Content |-> NilContent, FinishReason |-> r] :
        r \in {FinishReasonUnspecified, "SAFETY"}}
    \cup {[Content |-> <<[Parts |-> ps]>>, FinishReason |-> "STOP"] : ps \in PartSeqs}

\* what gtc.Generate returns: an error, or a response with at most one candidate
GenerateResults ==
    {[err |-> GenerateErr([kind |-> k]), Candidates |-> <<>>] :
        k \in {"overloaded", "apierror"}}
    \cup {[err |-> NilErr, Candidates |-> <<>>]}
    \cup {[err |-> NilErr, Candidates |-> <<c>>] : c \in ResponseCandidates}

\* gt.FuncArg[string](args, name): (arg, nil), (nil, nil) when the argument is
\* missing, (nil, e) when it is not a string
FuncArg(args, name) ==
    IF name \notin DOMAIN args
    THEN [arg |-> <<>>, e |-> NilErr]
    ELSE IF args[name].type # "string"
    THEN [arg |-> <<>>, e |-> NewErr("other", <<"not a string">>)]
    ELSE [arg |-> <<args[name].value>>, e |-> NilErr]

\* the loop over content.Parts, from part k on; acc holds translatedTitle,
\* summarizedContent and err as the loop has set them
RECURSIVE overParts(_, _, _)
overParts(parts, k, acc) ==
    IF k > Len(parts) THEN acc
    ELSE IF parts[k].FunctionCall = NilFunctionCall THEN overParts(parts, k + 1, acc)
    ELSE
        LET fn == parts[k].FunctionCall[1]
            title == FuncArg(fn.Args, fnParamNameTranslatedTitle)
            summary == FuncArg(fn.Args, fnParamNameSummarizedContent)
            withTitle == [acc EXCEPT !.translatedTitle = title.arg[1]]
        IN  IF fn.Name # fnNameTranslateTitleAndSummarizeContent
            THEN [acc EXCEPT !.err = NewErr("other", <<"not an expected function name">>)]
            ELSE IF title.e # NilErr
            THEN [acc EXCEPT !.err = Wrap(<<"could not get function argument">>, title.e)]
            ELSE IF title.arg = <<>>
            THEN [acc EXCEPT !.err = NewErr("other", <<"could not find function argument">>)]
            ELSE IF summary.e # NilErr
            THEN [withTitle EXCEPT
                     !.err = Wrap(<<"could not get function argument">>, summary.e)]
            ELSE IF summary.arg = <<>>
            THEN [withTitle EXCEPT
                     !.err = NewErr("other", <<"could not find function argument">>)]
            ELSE overParts(parts, k + 1,
                           [withTitle EXCEPT !.summarizedContent = summary.arg[1]])

\* translateAndSummarize and translateAndSummarizeYouTube, from the result of
\* gtc.Generate on: both read the response in the same way
structuredResult(result) ==
    LET nothing == [translatedTitle |-> <<>>, summarizedContent |-> <<>>, err |-> result.err]
    IN  IF result.err # NilErr THEN nothing
        ELSE IF Len(result.Candidates) = 0 THEN nothing
        ELSE LET candidate == result.Candidates[1]
             IN  IF candidate.Content # NilContent
                 THEN overParts(candidate.Content[1].Parts, 1, nothing)
                 ELSE IF candidate.FinishReason # FinishReasonUnspecified
                 THEN [nothing EXCEPT
                          !.err = NewErr("other", <<"generation was terminated due to">>)]
                 ELSE [nothing EXCEPT
                          !.err = NewErr("other", <<"returned content of candidate is nil">>)]

StructuredAdapters == {"translateAndSummarize", "translateAndSummarizeYouTube"}

\* one call of an adapter function, given what gtc.Generate comes back with
CallAdapter ==
    /\ Idle
    /\ \E fn \in StructuredAdapters, result \in GenerateResults :
          applied' = [fn |-> fn, args |-> result, ret |-> structuredResult(result)]
    /\ UNCHANGED <<now, cache, pipelineVars, fetcherVars, storeVars, raceVars>>


(***************************************************************************)
(* helpers.go: decorateHTML. A body is a sequence of tokens: a newline,    *)
(* the two asterisks of markdown bold, a character that html.EscapeString  *)
(* escapes, or a run of text holding none of these.                        *)
(***************************************************************************)
\* tokens of a body handed to decorateHTML
MaxBody == 5

Newline == "\n"
Asterisks == "**"

BodyTokens ==
    {Newline, Asterisks, "<", ">", "\"", "text", ErrorPrefixSummaryFailedWithError}

Bodies == UNION {[1..n -> BodyTokens] : n \in 0..MaxBody}

\* isError: strings.Contains(body, ErrorPrefixSummaryFailedWithError)
isError(body) == \E i \in DOMAIN body : body[i] = ErrorPrefixSummaryFailedWithError

\* html.EscapeString, token by token
EscapeString(body) ==
    [i \in DOMAIN body |->
        CASE body[i] = "<" -> "&lt;"
          [] body[i] = ">" -> "&gt;"
          [] body[i] = "&" -> "&amp;"
          [] body[i] = "\"" -> "&#34;"
          [] body[i] = "'" -> "&#39;"
          [] OTHER -> body[i]]

\* strings.ReplaceAll(body, old, new) for a one-token old
ReplaceAll(body, old, new) ==
    [i \in DOMAIN body |-> IF body[i] = old THEN new ELSE body[i]]

\* the first token of body that ends a try of `\*\*(.*?)\*\*` whose opening
\* asterisks were just read: the closing asterisks, or a newline, which `.`
\* does not match; 0 when there is neither
RECURSIVE firstStop(_, _)
firstStop(body, k) ==
    IF k > Len(body) THEN 0
    ELSE IF body[k] \in {Asterisks, Newline} THEN k
    ELSE firstStop(body, k + 1)

\* regexp.MustCompile(`\*\*(.*?)\*\*`).ReplaceAllString(body, `<b>$1</b>`)
RECURSIVE ReplaceAllBold(_)
ReplaceAllBold(body) ==
    IF body = <<>> THEN <<>>
    ELSE IF Head(body) # Asterisks THEN <<Head(body)>> \o ReplaceAllBold(Tail(body))
    ELSE LET rest == Tail(body)
             stop == firstStop(rest, 1)
         IN  IF stop = 0 \/ rest[stop] = Newline
             THEN <<Asterisks>> \o ReplaceAllBold(rest)
             ELSE <<"<b>">> \o SubSeq(rest, 1, stop - 1) \o <<"</b>">>
                  \o ReplaceAllBold(SubSeq(rest, stop + 1, Len(rest)))

\* decorateHTML
decorateHTML(body) ==
    IF ~isError(body)
    THEN ReplaceAllBold(ReplaceAll(EscapeString(body), Newline, "<br>"))
    ELSE ReplaceAllBold(body)

CallDecorateHTML ==
    /\ Idle
    /\ \E body \in Bodies :
          applied' = [fn |-> "decorateHTML", args |-> body, ret |-> decorateHTML(body)]
    /\ UNCHANGED <<now, cache, pipelineVars, fetcherVars, storeVars, raceVars>>

(***************************************************************************)
(* helpers.go: fetchURLContent, given what the GET request comes to        *)
(***************************************************************************)
\* what the request may come to: http.NewRequest fails; client.Do fails (the
\* network is down, the timeout strikes); or a response arrives, with a status,
\* a content type, and a body that can or cannot be read to its end
HTTPExchanges ==
    {[failed |-> f, StatusCode |-> 0, ContentType |-> <<"", "">>,
      readable |-> FALSE, Body |-> <<>>] : f \in {"NewRequest", "Do"}}
    \cup {[failed |-> "", StatusCode |-> st, ContentType |-> ct,
           readable |-> r, Body |-> b] :
             st \in {200, 404, 500},
             ct \in {<<"text", "html">>, <<"text", "plain">>, <<"application", "json">>,
                     <<"application", "pdf">>, <<"image", "png">>, <<"", "">>},
             r \in BOOLEAN,
             b \in {<<>>, <<"body">>, <<"body", "more">>}}

\* fmt.Sprintf(urlToTextFormat, url, contentType, text)
urlToText(url, contentType, text) ==
    <<"<link url=\"", url, "\" content-type=\"", contentType, "\">\n">>
        \o text \o <<"\n</link>">>

\* io.ReadAll(resp.Body): all of the body, or the part read before the error
ReadAll(exchange) ==
    IF exchange.readable
    THEN {[bytes |-> exchange.Body, err |-> NilErr]}
    ELSE {[bytes |-> SubSeq(exchange.Body, 1, n),
           err |-> NewErr("other", <<"unexpected EOF">>)] : n \in 0..Len(exchange.Body)}

\* fetchURLContent: the results it can give for an exchange
fetchURLContent(url, exchange) ==
    LET contentType == exchange.ContentType
        failure(why) == NewErr("fetch", <<why, url>>)
    IN  IF exchange.failed = "NewRequest"
        THEN {[content |-> <<>>, contentType |-> <<"", "">>,
               err |-> failure("failed to create request")]}
        ELSE IF exchange.failed = "Do"
        THEN {[content |-> <<>>, contentType |-> <<"", "">>,
               err |-> failure("failed to fetch contents from url")]}
        ELSE IF exchange.StatusCode # 200
        THEN {[content |-> urlToText(url, contentType, <<"HTTP Error", exchange.StatusCode>>),
               contentType |-> contentType,
               err |-> failure("http error from url")]}
        ELSE IF isTextFormattableContent(contentType)
        THEN {IF read.err = NilErr
              THEN [content |-> urlToText(url, contentType, read.bytes),
                    contentType |-> contentType, err |-> NilErr]
              ELSE [content |-> urlToText(url, contentType,
                                          <<"Failed to read this document.">>),
                    contentType |-> contentType,
                    err |-> failure("failed to read document from")] :
                 read \in ReadAll(exchange)}
        ELSE IF isFileContent(contentType)
        THEN {[content |-> read.bytes, contentType |-> contentType,
               err |-> IF read.err = NilErr THEN NilErr
                       ELSE failure("failed to read bytes from url")] :
                 read \in ReadAll(exchange)}
        ELSE {[content |-> urlToText(url, contentType, <<"Content type not supported.">>),
               contentType |-> contentType,
               err |-> failure("content type not supported for url")]}

CallFetchURLContent ==
    /\ Idle
    /\ \E url \in {ItemA.Link}, exchange \in HTTPExchanges :
          \E result \in fetchURLContent(url, exchange) :
             applied' = [fn |-> "fetchURLContent", args |-> exchange, ret |-> result]
    /\ UNCHANGED <<now, cache, pipelineVars, fetcherVars, storeVars, raceVars>>

(***************************************************************************)
(* Client.fetch, attempt by attempt. Every recursive call is one           *)
(* activation; an activation first tries the scrapper or fetchURLContent,  *)
(* then either calls fetch again, or makes the last try and returns.       *)
(***************************************************************************)
\* the budget Client.summarize hands to fetch
maxRetryCount == 3

\* what the HEAD request of getContentType gives; <<"", "">> when it fails
HeadContentTypes == {<<"text", "html">>, <<"application", "pdf">>, <<"", "">>}

\* strings.HasPrefix(contentType, "text/html")
IsHTML(contentType) == contentType = <<"text", "html">>

\* `len(urlScrapper) > 0 && strings.HasPrefix(contentType, "text/html")`
usesScrapper(given, contentType) == given /\ IsHTML(contentType)

\* retries recursing whatever budget remains
retriesAlways(failed, remaining) == failed

\* `err != nil && remainingRetryCount > 0`
retries(failed, remaining) == failed /\ remaining > 0

\* `err != nil && remainingRetryCount == 0 && len(urlScrapper) > 0`
lastTryWithoutScrapper(failed, remaining, given) == failed /\ remaining = 0 /\ given

NoFetchRet == [returned |-> FALSE, failed |-> FALSE,
               result |-> [content |-> <<>>, contentType |-> <<"", "">>, err |-> NilErr]]

FetcherInit ==
    /\ fpc = "idle"
    /\ budget = 0 /\ remainingRetryCount = 0 /\ urlScrapper = FALSE
    /\ attempts = <<>>
    /\ fetchRet = NoFetchRet

\* a caller calls c.fetch(remainingRetryCount, url, urlScrapper...)
fetchCalled ==
    /\ fpc \in {"idle", "done"}
    /\ \E n \in 0..maxRetryCount, given \in BOOLEAN :
          /\ budget' = n
          /\ remainingRetryCount' = n
          /\ urlScrapper' = given
    /\ fpc' = "calling"
    /\ attempts' = <<>>
    /\ fetchRet' = NoFetchRet
    /\ UNCHANGED <<now, cache, pipelineVars, storeVars, helperVars, raceVars>>

\* the URL handed to Client.fetch
fetchedURL == ItemA.Link

\* what the GET request of an attempt may come to: client.Do fails, the server
\* answers 404, or it answers 200 with an HTML or a PDF body, empty or not
FetchExchanges ==
    {ex \in HTTPExchanges :
        \/ ex.failed = "Do"
        \/ /\ ex.failed = "" /\ ex.readable
           /\ ex.ContentType \in {<<"text", "html">>, <<"application", "pdf">>}
           /\ ex.Body \in {<<>>, <<"body">>}
           /\ ex.StatusCode = 200 \/ (ex.StatusCode = 404 /\ ex.Body = <<>>
                                      /\ ex.ContentType = <<"text", "html">>)}

\* what scrapper.CrawlURLs([]string{url}, true) may return: the crawled
\* texts by URL (here: the texts) and an error
CrawlResults ==
    {[crawled |-> <<<<"crawled text">>>>, err |-> NilErr],
     [crawled |-> <<>>, err |-> NilErr],
     [crawled |-> <<>>, err |-> NewErr("other", <<"failed to crawl">>)]}

\* the scrapper branch: `for _, v := range crawled { scrapped = ...; break }`
scrape(url, contentType, crawl) ==
    [content |-> IF Len(crawl.crawled) > 0
                 THEN urlToText(url, contentType, crawl.crawled[1]) ELSE <<>>,
     contentType |-> contentType,
     err |-> crawl.err]

\* one activation of Client.fetch
fetch ==
    /\ fpc = "calling"
    /\ \E contentType \in HeadContentTypes, crawl \in CrawlResults,
          ex \in FetchExchanges, exAgain \in FetchExchanges :
        \E got \in fetchURLContent(fetchedURL, ex),
           gotAgain \in fetchURLContent(fetchedURL, exAgain) :
          LET byScrapper == usesScrapper(urlScrapper, contentType)
              result == IF byScrapper THEN scrape(fetchedURL, contentType, crawl) ELSE got
              failed == result.err # NilErr
              first == [by |-> IF byScrapper THEN "scrapper" ELSE "fetchURLContent",
                        remaining |-> remainingRetryCount,
                        head |-> contentType,
                        failed |-> failed,
                        lastTry |-> FALSE,
                        result |-> result]
              lastTry == [by |-> "fetchURLContent",
                          remaining |-> remainingRetryCount,
                          head |-> contentType,
                          failed |-> gotAgain.err # NilErr,
                          lastTry |-> TRUE,
                          result |-> gotAgain]
          IN  IF retries(failed, remainingRetryCount)
              THEN /\ attempts' = Append(attempts, first)
                   /\ remainingRetryCount' = remainingRetryCount - 1
                   /\ UNCHANGED <<fpc, fetchRet>>
              ELSE IF lastTryWithoutScrapper(failed, remainingRetryCount, urlScrapper)
              THEN /\ attempts' = attempts \o <<first, lastTry>>
                   /\ fetchRet' = [returned |-> TRUE, failed |-> lastTry.failed,
                                   result |-> gotAgain]
                   /\ fpc' = "done"
                   /\ UNCHANGED remainingRetryCount
              ELSE /\ attempts' = Append(attempts, first)
                   /\ fetchRet' = [returned |-> TRUE, failed |-> failed,
                                   result |-> result]
                   /\ fpc' = "done"
                   /\ UNCHANGED remainingRetryCount
    /\ UNCHANGED <<budget, urlScrapper>>
    /\ UNCHANGED <<now, cache, pipelineVars, storeVars, helperVars, raceVars>>

FetchNext ==
    \/ fetchCalled
    \/ fetch

(***************************************************************************)
(* Publishing: ListCachedItems, then PublishXML, as the feed server does   *)
(***************************************************************************)
redacted == "|REDACTED|"

\* redactText replacing the first of the baddies only
redactTextFirst(text, baddies) ==
    IF Len(baddies) = 0 THEN text ELSE ReplaceAll(text, baddies[1], redacted)

\* redactText: one strings.ReplaceAll per baddy, in order
RECURSIVE redactText(_, _)
redactText(text, baddies) ==
    IF Len(baddies) = 0 THEN text
    ELSE redactText(ReplaceAll(text, Head(baddies), redacted), Tail(baddies))

\* redactItems: copies of the items, the summary redacted when it is not empty
redactItems(items, baddies) ==
    [i \in DOMAIN items |->
        IF Len(items[i].Summary) > 0
        THEN [items[i] EXCEPT !.Summary = redactText(items[i].Summary, baddies)]
        ELSE items[i]]

\* `<br><br>` + fmt.Sprintf(`<label>: <a href="%[1]s">%[1]s</a>`, href)
footerLink(label, href) ==
    <<"<br><br>", label, ": <a href=\"", href, "\">", href, "</a>">>

\* footerOf linking to the GUID whatever the comments link is
footerOfGUID(item) ==
    IF isError(item.Summary) THEN <<>> ELSE footerLink("GUID", item.GUID)

\* what PublishXML appends to the decorated summary of an item
footerOf(item) ==
    IF isError(item.Summary) THEN <<>>
    ELSE IF Len(item.Comments) > 0 THEN footerLink("Comments", item.Comments)
    ELSE footerLink("GUID", item.GUID)

\* PublishXML: the items of the feed it marshals
PublishXML(items) ==
    LET summarized(item) == ~(Len(item.Summary) <= 0)
        kept == SelectSeq(items, summarized)
    IN  [i \in DOMAIN kept |->
            [Id |-> kept[i].GUID,
             Title |-> kept[i].Title,
             Link |-> kept[i].Link,
             Description |-> kept[i].Description,
             Content |-> decorateHTML(kept[i].Summary) \o footerOf(kept[i]),
             Created |-> kept[i].CreatedAt,
             Updated |-> kept[i].UpdatedAt]]

\* the items whose summaries get stored
PublishItems == {ItemA, ItemB, ItemD}

\* a response of the backend whose summary quotes the error marker
QuotingResponse ==
    [kind |-> "ok", title |-> <<"translated title">>,
     summary |-> <<"text", ErrorPrefixSummaryFailedWithError, "text">>]

\* the summaries SummarizeAndCacheFeeds saves for an item when summarize
\* returned an error (failed) and when it returned none
SummariesSaved(item, failed) ==
    {contentToCache(summarize(item.Title, item.Link, fetched, resp), item) :
        <<fetched, resp>> \in
            {fr \in FetchOutcomes \X (BackendResponses \cup {QuotingResponse}) :
                (summarize(item.Title, item.Link, fr[1], fr[2]).err # NilErr) = failed}}

\* the summaries stored: none yet, a generated one, a failure, texts that
\* quote an API key, and what is saved for the response that quotes the marker
PublishSummaries ==
    {<<>>,
     contentToCache(summarize(ItemA.Title, ItemA.Link,
                              [err |-> NilErr, contentType |-> <<"text", "html">>],
                              QuotingResponse), ItemA),
     <<"text", Newline, Asterisks, "text", Asterisks>>,
     <<Asterisks, ErrorPrefixSummaryFailedWithError, ": ", "<", "text", ">", Asterisks>>,
     <<"text", googleAIAPIKeys[1], Newline, googleAIAPIKeys[2], googleAIAPIKeys[1]>>,
     <<ErrorPrefixSummaryFailedWithError, ": ", googleAIAPIKeys[2]>>}

\* c.cache.Save, as SummarizeAndCacheFeeds calls it
StoreSummary ==
    /\ Idle
    /\ \E item \in PublishItems, summary \in PublishSummaries :
          cache' = Save(cache, item, <<"title">>, summary)
    /\ UNCHANGED <<now, pipelineVars, fetcherVars, storeVars, helperVars, raceVars>>

\* MarkCachedItemsAsRead, for one item
MarkCachedItemsAsRead ==
    /\ Idle
    /\ \E guid \in DOMAIN cache :
          /\ ~cache[guid].MarkedAsRead
          /\ cache' = MarkAsRead(cache, guid)
    /\ UNCHANGED <<now, pipelineVars, fetcherVars, storeVars, helperVars, raceVars>>

\* ListCachedItems
ListCachedItems ==
    /\ Idle
    /\ \E includeItemsMarkedAsRead \in BOOLEAN :
          \E listed \in List(cache, includeItemsMarkedAsRead) :
             applied' = [fn |-> "ListCachedItems",
                         args |-> [includeItemsMarkedAsRead |-> includeItemsMarkedAsRead,
                                   listed |-> listed],
                         ret |-> redactItems(listed, googleAIAPIKeys)]
    /\ UNCHANGED <<now, cache, pipelineVars, fetcherVars, storeVars, raceVars>>

\* PublishXML on what ListCachedItems returned
CallPublishXML ==
    /\ Idle
    /\ \E includeItemsMarkedAsRead \in BOOLEAN :
          \E listed \in List(cache, includeItemsMarkedAsRead) :
             LET items == redactItems(listed, googleAIAPIKeys)
             IN  applied' = [fn |-> "PublishXML", args |-> items, ret |-> PublishXML(items)]
    /\ UNCHANGED <<now, cache, pipelineVars, fetcherVars, storeVars, raceVars>>

PublishNext ==
    \/ StoreSummary
    \/ MarkCachedItemsAsRead
    \/ ListCachedItems
    \/ CallPublishXML
    \/ Return

(***************************************************************************)
(* Client.rotatedAPIKey called from goroutines that share one Client. The  *)
(* counter is a plain int: a call reads it to pick the key, then           *)
(* `c._requestCountForAPIKeyRotation++` reads it again and writes it, and  *)
(* the steps of the calls interleave in any order.                         *)
(***************************************************************************)
\* calls that each goroutine makes
MaxRotations == 2

Goroutines == {1, 2}

RaceInit ==
    goroutines = [g \in Goroutines |->
                     [at |-> "idle", picked |-> 0, loaded |-> 0, got |-> <<>>,
                      overlapped |-> FALSE]]

\* the goroutines that are inside rotatedAPIKey
Inside == {g \in Goroutines : goroutines[g].at # "idle"}

\* nextRequestCount leaving the counter as it is
nextRequestCountSame(n) == n

\* `c._requestCountForAPIKeyRotation++`: the value written for the value loaded
nextRequestCount(n) == n + 1

raceFrame == <<now, cache, pc, fetchCall, feeds, fetchErr, pos, broke, errs, ret, log,
               saves, last, onEntry, fetcherVars, storeVars, helperVars>>

\* g enters rotatedAPIKey and reads the counter for the index of the key
PickKey ==
    /\ \E g \in Goroutines :
          /\ goroutines[g].at = "idle"
          /\ Len(goroutines[g].got) < MaxRotations
          /\ goroutines' =
                [h \in Goroutines |->
                    IF h = g
                    THEN [goroutines[g] EXCEPT
                             !.at = "picked", !.picked = reqCount,
                             !.got = Append(@, reqCount),
                             !.overlapped = @ \/ Inside # {}]
                    ELSE IF h \in Inside
                    THEN [goroutines[h] EXCEPT !.overlapped = TRUE]
                    ELSE goroutines[h]]
    /\ UNCHANGED <<reqCount, raceFrame>>

\* g reads the counter for the increment
LoadCount ==
    /\ \E g \in Goroutines :
          /\ goroutines[g].at = "picked"
          /\ goroutines' = [goroutines EXCEPT ![g].at = "loaded", ![g].loaded = reqCount]
    /\ UNCHANGED <<reqCount, raceFrame>>

\* g writes the counter and returns the key it picked
StoreCount ==
    /\ \E g \in Goroutines :
          /\ goroutines[g].at = "loaded"
          /\ reqCount' = nextRequestCount(goroutines[g].loaded)
          /\ goroutines' = [goroutines EXCEPT ![g].at = "idle"]
    /\ UNCHANGED raceFrame

RaceNext ==
    \/ PickKey
    \/ LoadCount
    \/ StoreCount

(***************************************************************************)
(* The driver program: fetch, summarize and cache, again and again         *)
(***************************************************************************)
PipelineInit ==
    /\ reqCount = 0
    /\ pc = "idle"
    /\ fetchCall = NoFetchCall
    /\ feeds = <<>>
    /\ fetchErr = NilErr
    /\ pos = 0 /\ broke = FALSE /\ errs = <<>> /\ ret = NilErr
    /\ log = <<>> /\ saves = <<>> /\ last = NoLast /\ onEntry = NoEntry

Init ==
    /\ now = 0
    /\ cache = EmptyCache
    /\ PipelineInit
    /\ FetcherInit
    /\ StoreInit
    /\ applied = NoCall
    /\ RaceInit

Next ==
    \/ Tick
    \/ FetchFeeds
    \/ SummarizeAndCacheFeeds
    \/ SummarizeItem
    \/ SummarizeReturn

Spec == Init /\ [][Next]_vars

\* Client.fetch, called again and again
FetchSpec == Init /\ [][FetchNext]_vars

\* Client.fetch runs on once it is called: a called function is not suspended
FairFetchSpec == FetchSpec /\ WF_vars(fetch)

\* memCache and dbCache, given the same calls
CacheSpec == Init /\ [][CacheNext]_vars

HelperNext ==
    \/ CallAdapter
    \/ CallDecorateHTML
    \/ CallFetchURLContent
    \/ Return

\* the driver program over a dbCache whose writes can fail
DBSpec == Init /\ [][DBNext]_vars

\* goroutines calling rotatedAPIKey on one Client
RaceSpec == Init /\ [][RaceNext]_vars

\* the functions called on their own
HelperSpec == Init /\ [][HelperNext]_vars

\* the feed server: summaries get stored, the cache is listed and published
PublishSpec == Init /\ [][PublishNext]_vars

(***************************************************************************)
(* Vocabulary of the properties                                            *)
(***************************************************************************)
\* strings.Contains(text, token)
Contains(text, token) == \E i \in DOMAIN text : text[i] = token

IsPrefix(p, text) ==
    Len(p) <= Len(text) /\ SubSeq(text, 1, Len(p)) = p

IsSuffix(p, text) ==
    Len(p) <= Len(text) /\ SubSeq(text, Len(text) - Len(p) + 1, Len(text)) = p

IsInfix(p, text) ==
    \E k \in 0..(Len(text) - Len(p)) : SubSeq(text, k + 1, k + Len(p)) = p

\* a SummarizeAndCacheFeeds call is under way or has returned
InRun == pc \in {"running", "returned"}

\* the batch, in processing order
Batch == Flat(feeds)

\* the Save calls made for the k-th item of the batch
SavesOf(k) == {s \in DOMAIN saves : saves[s].pos = k}

\* summarize of the k-th item returned a model-overloaded error
OverloadedAt(k) ==
    k \in DOMAIN log /\ log[k].res.err # NilErr /\ IsModelOverloaded(log[k].res.err)

\* the last Save for the GUID of the k-th item was the one for the k-th item
LastSaveOfGUID(k) ==
    \A s \in DOMAIN saves : saves[s].GUID = log[k].item.GUID => saves[s].pos <= k

(***************************************************************************)
(* C1: when summarize of the k-th item of the batch returns a              *)
(* model-overloaded error, every item before k has been saved with its     *)
(* result, nothing is saved for item k or any later item, no later item is *)
(* passed to summarize, and the call returns a non-nil error.              *)
(***************************************************************************)
C1_OverloadAborts ==
    InRun =>
        \A k \in DOMAIN log : OverloadedAt(k) =>
            /\ k = Len(log)
            /\ k <= Len(Batch)
            /\ \A j \in 1..(k - 1) :
                  /\ Cardinality(SavesOf(j)) = 1
                  /\ \A s \in SavesOf(j) :
                        /\ saves[s].GUID = log[j].item.GUID
                        /\ saves[s].Title = log[j].res.translatedTitle
                        /\ IsPrefix(log[j].res.summarizedContent, saves[s].Summary)
                        /\ Exists(cache, log[j].item.GUID)
                        /\ LastSaveOfGUID(j) =>
                              /\ cache[log[j].item.GUID].Summary = saves[s].Summary
                              /\ cache[log[j].item.GUID].Title = saves[s].Title
            /\ \A s \in DOMAIN saves : saves[s].pos < k
            /\ pc = "returned" => ret # NilErr /\ IsModelOverloaded(ret.errs[Len(ret.errs)])

\* item 2 of a batch of 3 signalled overload; item 3 is in the next feed
C1_Witness ==
    /\ pc = "returned"
    /\ Len(Batch) = 3 /\ Len(feeds) = 2
    /\ Len(log) = 2 /\ OverloadedAt(2)
    /\ Len(saves) = 1
    /\ ret # NilErr

(***************************************************************************)
(* C2: on every path of summarize that calls the backend, a                *)
(* model-overloaded generation gives an error the reconciler classifies as *)
(* overloaded, and its text is never cached as a per-item error summary.   *)
(***************************************************************************)
OverloadedText == ErrToStr(GenerateErr([kind |-> "overloaded"]))

C2_OverloadPropagates ==
    /\ (InRun /\ Len(log) > 0 /\ last.resp = "overloaded"
            /\ last.path \in {"video", "text", "file", "url"}) =>
          /\ OverloadedAt(Len(log))
          /\ broke
          /\ SavesOf(Len(log)) = {}
    /\ \A g \in DOMAIN cache : ~IsInfix(OverloadedText, cache[g].Summary)

\* the URL-context fallback signalled overload after an item was cached
C2_Witness ==
    /\ pc = "running"
    /\ last.path = "url" /\ last.resp = "overloaded"
    /\ broke
    /\ Len(log) = 2 /\ Len(saves) = 1

(***************************************************************************)
(* C3: SummarizeAndCacheFeeds returns nil exactly when no summarize call   *)
(* returned an error; otherwise the join of one error per failed item, in  *)
(* processing order, a non-overload error carrying the item's title and    *)
(* link, and after an overload abort the errors before it plus the         *)
(* overload error.                                                         *)
(***************************************************************************)
FailedItems == SelectSeq(log, LAMBDA l : l.res.err # NilErr)

C3_ReturnedErrors ==
    pc = "returned" =>
        /\ ret = NilErr <=> Len(FailedItems) = 0
        /\ ret # NilErr =>
              /\ Len(ret.errs) = Len(FailedItems)
              /\ \A i \in DOMAIN FailedItems :
                    LET l == FailedItems[i]
                        e == ret.errs[i]
                    IN  IF IsModelOverloaded(l.res.err)
                        THEN e = l.res.err /\ i = Len(FailedItems)
                        ELSE /\ ~IsModelOverloaded(e)
                             /\ IsSuffix(ErrToStr(l.res.err), ErrToStr(e))
                             /\ IsInfix(l.item.Title, ErrToStr(e))
                             /\ Contains(ErrToStr(e), l.item.Link)

\* two items failed, then the third signalled overload
C3_Witness ==
    /\ pc = "returned"
    /\ broke
    /\ Len(log) = 3
    /\ Len(ret.errs) = 3
    /\ Len(log[2].item.Title) > 0

(***************************************************************************)
(* C4: every item whose summarize returns success or a non-overload error  *)
(* is saved exactly once, before the next item is taken; on success the    *)
(* saved summary is the generated text followed by a footer naming the     *)
(* model, and the saved title is the title summarize returned.             *)
(***************************************************************************)
C4_SavedOnce ==
    InRun =>
        /\ \A k \in DOMAIN log : ~OverloadedAt(k) =>
              /\ Cardinality(SavesOf(k)) = 1
              /\ \A s \in SavesOf(k) :
                    /\ saves[s].GUID = log[k].item.GUID
                    /\ saves[s].Title = log[k].res.translatedTitle
                    /\ log[k].res.err = NilErr =>
                          /\ IsPrefix(log[k].res.summarizedContent, saves[s].Summary)
                          /\ Contains(SubSeq(saves[s].Summary,
                                             Len(log[k].res.summarizedContent) + 1,
                                             Len(saves[s].Summary)),
                                      defaultGoogleAIModel)
                    /\ LastSaveOfGUID(k) =>
                          /\ Exists(cache, log[k].item.GUID)
                          /\ cache[log[k].item.GUID].Summary = saves[s].Summary
                          /\ cache[log[k].item.GUID].Title = saves[s].Title
        /\ \A s, t \in DOMAIN saves : s < t => saves[s].pos < saves[t].pos

\* two items saved, the first with a translated title, a third still to come
C4_Witness ==
    /\ pc = "running"
    /\ Len(Batch) = 3 /\ Len(log) = 2 /\ Len(saves) = 2
    /\ log[1].res.err = NilErr
    /\ log[1].res.translatedTitle # log[1].item.Title
    /\ cache[log[1].item.GUID].Title = log[1].res.translatedTitle

(***************************************************************************)
(* C5: an item whose summarize fails with a non-overload error is cached   *)
(* with the error marker and the error text followed by the item's         *)
(* description, under the item's own title, and the loop goes on.          *)
(***************************************************************************)
C5_FailedItemCached ==
    InRun =>
        /\ \A k \in DOMAIN log :
              (log[k].res.err # NilErr /\ ~OverloadedAt(k)) =>
                  /\ SavesOf(k) # {}
                  /\ \A s \in SavesOf(k) :
                        /\ saves[s].Title = log[k].item.Title
                        /\ IsPrefix(<<ErrorPrefixSummaryFailedWithError>>, saves[s].Summary)
                        /\ IsInfix(ErrToStr(log[k].res.err), saves[s].Summary)
                        /\ IsSuffix(log[k].item.Description, saves[s].Summary)
                        /\ Len(saves[s].Summary) >
                              Len(ErrToStr(log[k].res.err)) + Len(log[k].item.Description)
                        /\ LastSaveOfGUID(k) =>
                              cache[log[k].item.GUID].Summary = saves[s].Summary
                  /\ k = Len(log) => ~broke
        /\ (pc = "returned" /\ \A k \in DOMAIN log : ~OverloadedAt(k)) =>
              Len(log) = Len(Batch)

\* the first item failed and was cached, the second was taken after it
C5_Witness ==
    /\ pc = "running"
    /\ Len(log) = 2
    /\ log[1].res.err # NilErr /\ ~OverloadedAt(1)
    /\ log[1].item.GUID # log[2].item.GUID
    /\ Contains(cache[log[1].item.GUID].Summary, ErrorPrefixSummaryFailedWithError)
    /\ IsSuffix(log[1].item.Description, cache[log[1].item.GUID].Summary)

(***************************************************************************)
(* C6, as claimed: whenever the direct fetch of an item's link fails,      *)
(* summarize returns a non-nil error and the item is cached with a summary *)
(* that contains the error marker and the item's description.              *)
(***************************************************************************)
LastItem == log[Len(log)]

AfterFailedFetch == InRun /\ Len(log) > 0 /\ last.fetchFailed

C7_TitleKept ==
    InRun =>
        /\ \A k \in DOMAIN log :
              log[k].res.err # NilErr => log[k].res.translatedTitle = log[k].item.Title
        /\ (Len(log) > 0 /\ last.path = "url") =>
              LastItem.res.translatedTitle = LastItem.item.Title

\* the fallback succeeded with a backend response that carries another title
C7_Witness ==
    /\ InRun /\ Len(log) > 0
    /\ last.path = "url" /\ last.resp = "ok"
    /\ LastItem.res.err = NilErr
    /\ LastItem.item = ItemA2
    /\ LastItem.res.translatedTitle = ItemA2.Title
    /\ \E k \in DOMAIN log : log[k].res.err # NilErr /\ Len(log[k].item.Title) > 0

(***************************************************************************)
(* C8: a successful summarize, on the video, text/file and URL-context     *)
(* paths alike, never returns an empty summary, and never an empty title   *)
(* when the title given was not empty.                                     *)
(***************************************************************************)
C8_NeverBlank ==
    InRun =>
        \A k \in DOMAIN log : log[k].res.err = NilErr =>
            /\ Len(log[k].res.summarizedContent) > 0
            /\ Len(log[k].item.Title) > 0 => Len(log[k].res.translatedTitle) > 0

(***************************************************************************)
(* C9: with ignoreAlreadyCached, FetchFeeds returns no item whose GUID is  *)
(* in the cache and every other fetched item that passes the age filter;   *)
(* without it, no item is removed for being cached.                        *)
(***************************************************************************)
SuccessfulSources == SelectSeq(fetchCall.results, LAMBDA r : r.err = NilErr)

PassesAgeFilter(item) ==
    \/ item.PublishedParsed = NilTime
    \/ item.PublishedParsed[1] >= fetchCall.at - fetchCall.days

PassesDedup(item) ==
    fetchCall.ignoreAlreadyCached => ~Exists(cache, item.GUID)

C9_Dedup ==
    (pc = "fetched" /\ fetchCall.called) =>
        /\ Len(feeds) = Len(SuccessfulSources)
        /\ \A f \in DOMAIN feeds :
              LET doc == SuccessfulSources[f].Items
                  got == feeds[f].Items
              IN  /\ fetchCall.ignoreAlreadyCached =>
                        \A i \in DOMAIN got : ~Exists(cache, got[i].GUID)
                  /\ \A d \in DOMAIN doc :
                        (\E i \in DOMAIN got : got[i] = doc[d])
                            <=> (PassesDedup(doc[d]) /\ PassesAgeFilter(doc[d]))
                  /\ \A i, j \in DOMAIN got : i < j =>
                        \E a, b \in DOMAIN doc : a < b /\ doc[a] = got[i] /\ doc[b] = got[j]

\* the source yields A and B, A is cached: only B is returned
C9_Witness ==
    /\ pc = "fetched" /\ fetchCall.called
    /\ fetchCall.ignoreAlreadyCached
    /\ Exists(cache, ItemA.GUID) /\ ~Exists(cache, ItemB.GUID)
    /\ fetchCall.results[1].Items = <<ItemA, ItemB>>
    /\ feeds[1].Items = <<ItemB>>

(***************************************************************************)
(* C10: FetchFeeds drops an item exactly when its parsed publish time is   *)
(* earlier than now minus the retention days; an item without a parsed     *)
(* publish time is never dropped by this rule, and FetchFeeds completes    *)
(* normally for a feed that holds one.                                     *)
(***************************************************************************)
C10_AgeFilter ==
    fetchCall.called =>
        /\ pc # "panic"
        /\ pc = "fetched" =>
              \A f \in DOMAIN feeds : \A d \in DOMAIN SuccessfulSources[f].Items :
                  LET item == SuccessfulSources[f].Items[d]
                  IN  PassesDedup(item) =>
                        ((\E i \in DOMAIN feeds[f].Items : feeds[f].Items[i] = item)
                            <=> ~(/\ item.PublishedParsed # NilTime
                                  /\ item.PublishedParsed[1] < fetchCall.at - fetchCall.days))

(***************************************************************************)
(* Client.fetch                                                            *)
(***************************************************************************)
\* every attempt of the call failed
AllAttemptsFailed == \A i \in DOMAIN attempts : attempts[i].failed

\* every HEAD request answered text/html
HTMLTarget == \A i \in DOMAIN attempts : IsHTML(attempts[i].head)

\* C11: with a scrapper, an HTML target and budget N, a call whose attempts
\* all fail makes N scrapper attempts and then exactly one fetchURLContent
\* attempt, the last; the scrapper is not used with a remaining budget of 0.
C11_FallbackChain ==
    (fpc = "done" /\ urlScrapper /\ HTMLTarget /\ AllAttemptsFailed) =>
        /\ Len(attempts) = budget + 1
        /\ \A i \in 1..budget : attempts[i].by = "scrapper"
        /\ attempts[budget + 1].by = "fetchURLContent"
        /\ \A i \in DOMAIN attempts :
              attempts[i].by = "scrapper" => attempts[i].remaining > 0

(***************************************************************************)
(* FeedsItemsCache                                                         *)
(***************************************************************************)
\* the rows of the table that carry a GUID, soft-deleted ones included
RowsOf(guid) == {i \in DOMAIN db : db[i].GUID = guid}

\* the step is a call of the named function on both caches
Called(name) == op'.name = name /\ calls' = calls + 1

\* C12: after any sequence of Save, MarkAsRead and DeleteOlderThan1Month
\* calls, each cache holds at most one record per GUID.
C12_OneRecordPerGUID ==
    /\ \A g \in DOMAIN cache : cache[g].GUID = g
    /\ \A i, j \in DOMAIN db : db[i].GUID = db[j].GUID => i = j

\* a Save of a GUID that both caches hold, with another record beside it
C12_Witness ==
    /\ op.name = "Save" /\ op.inMem /\ op.inDB
    /\ Cardinality(RowsOf(op.guid)) = 1
    /\ Len(db) >= 2 /\ Cardinality(DOMAIN cache) >= 2

\* what Save is to leave alone in a record that is already stored
Preserved(before, after) ==
    /\ after.Link = before.Link
    /\ after.Comments = before.Comments
    /\ after.Author = before.Author
    /\ after.PublishDate = before.PublishDate
    /\ after.Description = before.Description
    /\ after.CreatedAt = before.CreatedAt
    /\ after.MarkedAsRead = before.MarkedAsRead

\* C13: Save for a GUID that is already stored keeps the record's link,
\* comments link, author, publish date, description, creation timestamp and
\* marked-as-read flag, in the memory cache and in the DB cache.
C13_SaveKeepsFirstSeen ==
    [][Called("Save") =>
        /\ op'.guid \in DOMAIN cache =>
              Preserved(cache[op'.guid], cache'[op'.guid])
        /\ \A i \in Visible(db) :
              db[i].GUID = op'.guid => Preserved(db[i], db'[i])]_vars

\* C14: DeleteOlderThan1Month removes exactly the records created more than
\* 30 days before now, in both caches: one stored within the last 30 days
\* is still there after the sweep.
C14_SweepKeepsYoung ==
    [][Called("DeleteOlderThan1Month") =>
        /\ \A g \in DOMAIN cache :
              g \in DOMAIN cache' <=> ~(savedAt[g] < now - 30)
        /\ \A i \in Visible(db) :
              i \in Visible(db') <=> ~TimeBefore(db[i].CreatedAt, MonthAgo(now))]_vars

\* the GUIDs of a list of records
GUIDsOf(items) == {items[i].GUID : i \in DOMAIN items}

\* C15: List(true) returns at most listLimit records; List(false) returns
\* every stored record that is not marked as read, each once, and no record
\* that is marked as read. Both caches.
C15_ListCap ==
    op.name = "List" =>
        IF op.includeItemsMarkedAsRead
        THEN Len(answer.mem) <= listLimit /\ Len(answer.db) <= listLimit
        ELSE /\ GUIDsOf(answer.mem) = {g \in DOMAIN cache : ~cache[g].MarkedAsRead}
             /\ Len(answer.mem) = Cardinality(GUIDsOf(answer.mem))
             /\ GUIDsOf(answer.db) =
                    {db[i].GUID : i \in {j \in Visible(db) : ~db[j].MarkedAsRead}}
             /\ Len(answer.db) = Cardinality(GUIDsOf(answer.db))

\* C16: List returns the records newest first, in both modes and from both
\* caches, and a capped result holds the newest records.
C16_NewestFirst ==
    op.name = "List" =>
        /\ \A i, j \in DOMAIN answer.mem :
              i < j => savedAt[answer.mem[i].GUID] >= savedAt[answer.mem[j].GUID]
        /\ \A i, j \in DOMAIN answer.db :
              i < j => ~TimeBefore(answer.db[i].CreatedAt, answer.db[j].CreatedAt)
        /\ \A r \in Visible(db), j \in DOMAIN answer.db :
              (op.includeItemsMarkedAsRead /\ db[r].GUID \notin GUIDsOf(answer.db))
                  => ~TimeBefore(answer.db[j].CreatedAt, db[r].CreatedAt)

\* C17: Fetch(id) returns the stored record whose GUID is id, nil when there
\* is none, and never a record with another GUID. Both caches.
C17_FetchByGUID ==
    op.name = "Fetch" =>
        /\ answer.mem = IF op.inMem THEN <<cache[op.guid]>> ELSE <<>>
        /\ IF op.inDB
           THEN Len(answer.db) = 1 /\ answer.db[1].GUID = op.guid
           ELSE answer.db = <<>>

\* the records of the memory cache with the flag of one of them set
FlagSet(c, guid) ==
    [g \in DOMAIN c |-> IF g = guid THEN [c[g] EXCEPT !.MarkedAsRead = TRUE] ELSE c[g]]

\* C18 as stated: MarkAsRead(id) sets the flag of the record with GUID id and
\* changes no other field of it and no other record; without such a record
\* the store is unchanged.
C18_MarkAsReadOnlyFlag ==
    [][Called("MarkAsRead") =>
        /\ cache' = FlagSet(cache, op'.guid)
        /\ db' = [i \in DOMAIN db |->
                    IF i \in Visible(db) /\ db[i].GUID = op'.guid
                    THEN [db[i] EXCEPT !.MarkedAsRead = TRUE]
                    ELSE db[i]]]_vars

\* C18 amended: besides the flag, the DB cache sets the record's UpdatedAt
\* to the time of the call; nothing else changes in either cache.
C18_MarkAsReadFlagAndUpdatedAt ==
    [][Called("MarkAsRead") =>
        /\ cache' = FlagSet(cache, op'.guid)
        /\ db' = [i \in DOMAIN db |->
                    IF i \in Visible(db) /\ db[i].GUID = op'.guid
                    THEN [db[i] EXCEPT !.MarkedAsRead = TRUE, !.UpdatedAt = <<now>>]
                    ELSE db[i]]]_vars

\* a record saved on an earlier day was marked as read, beside another record
C18_Witness ==
    /\ op.name = "MarkAsRead" /\ op.inMem /\ op.inDB
    /\ cache[op.guid].MarkedAsRead /\ Len(cache[op.guid].Summary) > 0
    /\ \E i \in RowsOf(op.guid) :
          db[i].MarkedAsRead /\ db[i].UpdatedAt # db[i].CreatedAt
    /\ Cardinality(DOMAIN cache) >= 2

\* what C19 compares of a record
Shown(r) ==
    [GUID |-> r.GUID, Title |-> r.Title, Summary |-> r.Summary,
     MarkedAsRead |-> r.MarkedAsRead]

\* C19: after the same Save, MarkAsRead and DeleteOlderThan1Month calls from
\* empty stores, the two caches answer Exists, Fetch and List alike.
C19_SameAnswers ==
    op.name \in Queries =>
        IF op.name = "Exists" THEN answer.mem = answer.db
        ELSE /\ Len(answer.mem) = Len(answer.db)
             /\ \A i \in DOMAIN answer.mem :
                   i \in DOMAIN answer.db /\ Shown(answer.mem[i]) = Shown(answer.db[i])

(***************************************************************************)
(* Client.rotatedAPIKey                                                    *)
(***************************************************************************)
\* C20: the k-th generation call of the client uses the key at index
\* (k-1) mod n of the pool; the request counter grows by one per call and
\* never decreases, so consecutive calls take the keys in turn.
C20_KeyRotation ==
    [][/\ reqCount' >= reqCount
       /\ reqCount' # reqCount =>
             /\ reqCount' = reqCount + 1
             /\ last'.key = googleAIAPIKeys[((reqCount' - 1) % Len(googleAIAPIKeys)) + 1]
             /\ (last.key # "" /\ Len(googleAIAPIKeys) > 1) => last'.key # last.key]_vars

\* the third call of the client is back at the first key
C20_Witness ==
    /\ reqCount = Len(googleAIAPIKeys) + 1
    /\ last.key = googleAIAPIKeys[1]
    /\ Len(log) >= 2

\* the function calls among the parts of the first candidate's content
FunctionCallsOf(result) ==
    LET parts == result.Candidates[1].Content[1].Parts
    IN  {parts[k].FunctionCall[1] : k \in {j \in DOMAIN parts :
                                              parts[j].FunctionCall # NilFunctionCall}}

MissingArgument(fn) ==
    \/ fnParamNameTranslatedTitle \notin DOMAIN fn.Args
    \/ fnParamNameSummarizedContent \notin DOMAIN fn.Args

\* a response that came without error and holds no usable structured result
NoUsableResult(result) ==
    /\ result.err = NilErr
    /\ \/ Len(result.Candidates) = 0
       \/ /\ Len(result.Candidates) > 0
          /\ result.Candidates[1].Content = NilContent
       \/ /\ Len(result.Candidates) > 0
          /\ result.Candidates[1].Content # NilContent
          /\ \/ FunctionCallsOf(result) = {}
             \/ \E fn \in FunctionCallsOf(result) :
                   \/ fn.Name # fnNameTranslateTitleAndSummarizeContent
                   \/ MissingArgument(fn)

\* C22: translateAndSummarize and translateAndSummarizeYouTube return a non-nil
\* error whenever the response holds no usable structured result: no candidate,
\* a candidate with nil content, a content with no function-call part, a
\* function call with an unexpected name, or a missing title or summary argument.
C22_NoResultIsError ==
    (applied.fn \in StructuredAdapters /\ NoUsableResult(applied.args))
        => applied.ret.err # NilErr

\* the k-th item the loops took is followed by another item of the same feed
NotLastOfItsFeed(k) ==
    /\ k < Len(Flat(feeds))
    /\ Flat(feeds)[k + 1].f = Flat(feeds)[k].f

\* C23: in SummarizeAndCacheFeeds, after each item that is not the last of its
\* feed, handled with success or with a non-overload failure, the loop sleeps
\* the pacing interval; it does not sleep after the last item of a feed, nor
\* after the item whose overload aborts the run.
C23_Pacing ==
    pc \in {"running", "returned"} =>
        \A k \in 1..Len(log) :
            log[k].slept <=> (NotLastOfItsFeed(k) /\ ~IsModelOverloaded(log[k].res.err))

\* a run that slept after a failed item and did not sleep after the last item
\* of a feed
C23_Witness ==
    /\ pc = "returned"
    /\ \E k \in 1..Len(log) :
          log[k].slept /\ log[k].res.err # NilErr
    /\ \E k \in 1..Len(log) :
          ~log[k].slept /\ ~NotLastOfItsFeed(k) /\ log[k].res.err = NilErr

\* how many of the first k tokens of body are the asterisks of markdown bold
RECURSIVE AsterisksUpTo(_, _)
AsterisksUpTo(body, k) ==
    IF k = 0 THEN 0
    ELSE AsterisksUpTo(body, k - 1) + (IF body[k] = Asterisks THEN 1 ELSE 0)

\* what the claim makes of token i of body: asterisks pair up from the left
Decorated(body, i) ==
    LET nth == AsterisksUpTo(body, i)
        all == AsterisksUpTo(body, Len(body))
    IN  CASE body[i] = Newline -> "<br>"
          [] body[i] = Asterisks /\ nth % 2 = 0 -> "</b>"
          [] body[i] = Asterisks /\ nth % 2 = 1 /\ nth < all -> "<b>"
          [] body[i] = Asterisks /\ nth % 2 = 1 /\ nth = all -> Asterisks
          [] body[i] = "<" /\ ~isError(body) -> "&lt;"
          [] body[i] = ">" /\ ~isError(body) -> "&gt;"
          [] OTHER -> applied.ret[i]

\* C25: decorateHTML replaces every newline with <br> and every paired **x**
\* with <b>x</b>, leaving an unpaired ** as it is, and HTML-escapes angle
\* brackets first; the newline and bold conversion also apply to a body that
\* carries the 'Summary failed with error' marker.
C25_Decorated ==
    applied.fn = "decorateHTML" =>
        /\ Len(applied.ret) = Len(applied.args)
        /\ \A i \in DOMAIN applied.args : applied.ret[i] = Decorated(applied.args, i)

\* the position in items of the item an entry was made from
ItemOf(entry, items) == CHOOSE i \in DOMAIN items : items[i].GUID = entry.Id

\* one entry per item with a non-empty summary, in the order of the items
OneEntryPerSummary(items, entries) ==
    /\ \A i \in DOMAIN items :
          Cardinality({j \in DOMAIN entries : entries[j].Id = items[i].GUID})
              = IF items[i].Summary # <<>> THEN 1 ELSE 0
    /\ \A j \in DOMAIN entries : \E i \in DOMAIN items : items[i].GUID = entries[j].Id
    /\ \A j, k \in DOMAIN entries :
          j < k => ItemOf(entries[j], items) < ItemOf(entries[k], items)

\* the footer of the claim: the comments link when there is one, else the GUID
LinkFooter(item) ==
    IF item.Comments # "" THEN footerLink("Comments", item.Comments)
    ELSE footerLink("GUID", item.GUID)

\* C24 as stated: PublishXML emits exactly one entry, in input order, for each
\* cached item with a non-empty summary and none for an item with an empty
\* summary; each entry's content is the decorated summary followed by a footer
\* linking to the comments link when non-empty, else to the GUID.
C24_EntryPerSummaryWithFooter ==
    applied.fn = "PublishXML" =>
        /\ OneEntryPerSummary(applied.args, applied.ret)
        /\ \A j \in DOMAIN applied.ret :
              LET item == applied.args[ItemOf(applied.ret[j], applied.args)]
              IN  applied.ret[j].Content = decorateHTML(item.Summary) \o LinkFooter(item)

\* C24, amended: the entries are as stated; the content of an entry is the
\* decorated summary followed by the footer when the summary does not carry the
\* error marker, and the decorated summary alone when it does.
C24_FooterUnlessError ==
    applied.fn = "PublishXML" =>
        /\ OneEntryPerSummary(applied.args, applied.ret)
        /\ \A j \in DOMAIN applied.ret :
              LET item == applied.args[ItemOf(applied.ret[j], applied.args)]
              IN  applied.ret[j].Content =
                      IF isError(item.Summary) THEN decorateHTML(item.Summary)
                      ELSE decorateHTML(item.Summary) \o LinkFooter(item)

\* three items published: one with an empty summary, which gets no entry, one
\* with a failure as its summary, and one with a generated summary and a
\* comments link
C24_Witness ==
    /\ applied.fn = "PublishXML"
    /\ Len(applied.args) = 3
    /\ Len(applied.ret) = 2
    /\ \E j \in 1..3 : isError(applied.args[j].Summary)
    /\ \E j \in 1..3 :
          /\ applied.args[j].Summary # <<>>
          /\ ~isError(applied.args[j].Summary)
          /\ applied.args[j].Comments # ""

\* C26: no item returned by ListCachedItems has a Summary containing any of the
\* configured API keys, each occurrence being replaced by the redaction marker;
\* the returned items otherwise equal the cache's List result in count, order
\* and all other fields, and the stored records are not modified.
C26_Redacted ==
    [][applied'.fn = "ListCachedItems" /\ applied.fn # "ListCachedItems" =>
        LET listed == applied'.args.listed
            items == applied'.ret
            keys == {googleAIAPIKeys[n] : n \in DOMAIN googleAIAPIKeys}
        IN  /\ Len(items) = Len(listed)
            /\ \A i \in DOMAIN items :
                  /\ \A k \in DOMAIN items[i].Summary : items[i].Summary[k] \notin keys
                  /\ Len(items[i].Summary) = Len(listed[i].Summary)
                  /\ \A k \in DOMAIN listed[i].Summary :
                        items[i].Summary[k] =
                            IF listed[i].Summary[k] \in keys THEN redacted
                            ELSE listed[i].Summary[k]
                  /\ [items[i] EXCEPT !.Summary = <<>>] = [listed[i] EXCEPT !.Summary = <<>>]
            /\ cache' = cache]_vars

\* a listing of two records, one of which quoted both keys
C26_Witness ==
    /\ applied.fn = "ListCachedItems"
    /\ Len(applied.ret) = 2
    /\ \E i \in 1..2 :
          /\ \E k \in DOMAIN applied.args.listed[i].Summary :
                applied.args.listed[i].Summary[k] = googleAIAPIKeys[1]
          /\ \E k \in DOMAIN applied.args.listed[i].Summary :
                applied.args.listed[i].Summary[k] = googleAIAPIKeys[2]

\* C27: whenever fetchURLContent returns an error (network failure or timeout,
\* non-200 status, unsupported content type) it also returns a non-empty
\* diagnostic content payload; it never panics, so every call returns.
C27_ErrorWithPayload ==
    (applied.fn = "fetchURLContent" /\ applied.ret.err # NilErr)
        => applied.ret.content # <<>>

\* the Save call of this step, when the step made one
SaveMade == saves'[Len(saves')]

\* this step is a pass of the loop body whose Save failed to write
WriteFailed == Len(saves') = Len(saves) + 1 /\ ~SaveMade.written

\* the errors a finished run returns are those of summarize, item by item
OnlySummarizeErrors ==
    LET failed == SelectSeq(log, LAMBDA e : e.res.err # NilErr)
    IN  ret = JoinErrs([k \in DOMAIN failed |-> itemError(failed[k].res.err, failed[k].item)])

\* C28: a cache write that fails inside Save does not abort the run:
\* SummarizeAndCacheFeeds goes on to the next item, the failure is not added to
\* the error it returns, and the store is left as it was before the write.
C28_FailedWriteIsSkipped ==
    [][/\ WriteFailed =>
            /\ db' = db
            /\ pc' = "running" /\ ~broke' /\ pos' = pos + 1
            /\ errs' = IF log'[Len(log')].res.err # NilErr
                       THEN Append(errs, itemError(log'[Len(log')].res.err,
                                                   log'[Len(log')].item))
                       ELSE errs
       /\ (pc = "running" /\ pc' = "returned") =>
            /\ OnlySummarizeErrors'
            /\ \A s \in DOMAIN saves :
                  ~saves[s].written =>
                      \/ Len(log) = Len(Flat(feeds))
                      \/ \E k \in DOMAIN log :
                            k > saves[s].pos /\ IsModelOverloaded(log[k].res.err)]_vars

\* a run of two items that returned no error, though the write of the first
\* item failed and left the table empty
C28_Witness ==
    /\ pc = "returned" /\ ret = NilErr
    /\ Len(log) = 2 /\ Len(saves) = 2
    /\ ~saves[1].written /\ saves[2].written
    /\ Len(db) = 1 /\ db[1].GUID = saves[2].GUID

\* the counter values the calls made so far have obtained, as <<goroutine, call>>
Obtained ==
    {c \in Goroutines \X (1..MaxRotations) : c[2] <= Len(goroutines[c[1]].got)}

ValueOf(c) == goroutines[c[1]].got[c[2]]

\* calls returned so far
Returned ==
    LET done(g) == Len(goroutines[g].got) - (IF g \in Inside THEN 1 ELSE 0)
    IN  done(1) + done(2)

C30_PathChoice ==
    (InRun /\ Len(log) > 0) =>
        LET url == LastItem.item.Link
            f == last.fetched
        IN  /\ isYouTubeURL(url) => (~f.attempted /\ last.path = "video")
            /\ ~isYouTubeURL(url) =>
                  /\ f.attempted
                  /\ last.path # "video"
                  /\ last.path = "text" <=>
                        (f.err = NilErr /\ isTextFormattableContent(f.contentType))
                  /\ last.path = "file" <=>
                        (f.err = NilErr /\ isFileContent(f.contentType))
                  /\ last.path = "url" <=> f.err # NilErr
            /\ last.path \in {"video", "text", "file", "url"} =>
                  reqCount > 0 /\ last.key = rotatedAPIKey(reqCount - 1)

\* a fetched PDF was handed to the structured file call
C30_Witness ==
    /\ InRun /\ Len(log) > 0
    /\ ~isYouTubeURL(LastItem.item.Link)
    /\ last.fetched.attempted /\ last.fetched.err = NilErr
    /\ isFileContent(last.fetched.contentType)
    /\ last.path = "file"

(***************************************************************************)
(* C38: de-duplication and the number of summaries per GUID                *)
(***************************************************************************)
\* the passes of the loop that summarized an item with this GUID
SummariesOf(guid) == {k \in DOMAIN log : log[k].item.GUID = guid}

\* the places of the feeds handed to the run that hold an item with this GUID
DeliveriesOf(guid) == {k \in DOMAIN Batch : Batch[k].item.GUID = guid}

\* the feeds of the running or finished run were fetched with de-duplication
DedupRun == InRun /\ onEntry.called /\ onEntry.ignoreAlreadyCached

\* C38: in a cycle of FetchFeeds with de-duplication and
\* SummarizeAndCacheFeeds, no GUID is summarized more than once, whatever
\* number of sources or places of one feed deliver it.
C38_OncePerGUID ==
    DedupRun => \A k \in DOMAIN log : Cardinality(SummariesOf(log[k].item.GUID)) <= 1

\* C38, amended: in such a cycle no GUID the cache held at the call is
\* summarized, and a GUID is summarized at most once per place of the
\* fetched feeds that delivers it: once when one place delivers it, once
\* per source when several sources deliver it.
C38_OncePerDelivery ==
    DedupRun =>
        \A k \in DOMAIN log :
            LET guid == log[k].item.GUID
            IN  /\ guid \notin onEntry.cached
                /\ Cardinality(SummariesOf(guid)) <= Cardinality(DeliveriesOf(guid))

\* a finished run after a fetch with de-duplication that summarized the GUID
\* two sources delivered twice
C38_Witness ==
    /\ pc = "returned" /\ DedupRun
    /\ \E k \in DOMAIN log : Cardinality(SummariesOf(log[k].item.GUID)) = 2

(***************************************************************************)
(* C31: what a run leaves in the cache, and what a later FetchFeeds with   *)
(* de-duplication makes of it                                              *)
(***************************************************************************)
\* a FetchFeeds with de-duplication on this cache drops the item, keeps it
Excluded(item) == DropCached(cache, <<item>>) = <<>>

Retried(item) == DropCached(cache, <<item>>) = <<item>>

\* the places of the batch from the item whose summary signalled overload on
FromOverload == {k \in DOMAIN Batch : \E o \in DOMAIN log : OverloadedAt(o) /\ o <= k}

\* an item cached after a failure that was not an overload stays cached and
\* is excluded by a later FetchFeeds with de-duplication
FailedItemsExcluded ==
    \A k \in DOMAIN log :
        (log[k].res.err # NilErr /\ ~OverloadedAt(k)) =>
            /\ Exists(cache, log[k].item.GUID)
            /\ Excluded(log[k].item)

\* C31: when a run has returned, every item it cached after a failure
\* other than overload is in the cache and a later FetchFeeds with
\* de-duplication excludes it; the item whose summary signalled overload and
\* every item after it in the batch are absent from the cache, and a later
\* FetchFeeds with de-duplication returns them again.
C31_AbsentAfterOverload ==
    pc = "returned" =>
        /\ FailedItemsExcluded
        /\ \A k \in FromOverload :
              /\ ~Exists(cache, Batch[k].item.GUID)
              /\ Retried(Batch[k].item)

\* C31, amended: the first part as claimed; the run saves nothing for the
\* item whose summary signalled overload nor for any item after it, so such
\* an item is in the cache when the run returns exactly when the cache held
\* its GUID at the call or the run saved an earlier item of the batch with
\* the same GUID, and is returned again by a later FetchFeeds with
\* de-duplication in every other case.
C31_NotSavedAfterOverload ==
    pc = "returned" =>
        /\ FailedItemsExcluded
        /\ \A k \in FromOverload :
              LET guid == Batch[k].item.GUID
                  held == \/ guid \in onEntry.cached
                          \/ \E s \in DOMAIN saves : saves[s].GUID = guid
              IN  /\ SavesOf(k) = {}
                  /\ Exists(cache, guid) <=> held
                  /\ ~held => Retried(Batch[k].item)
                  /\ held => Excluded(Batch[k].item)

\* a run has returned that cached a failed item, then met overload at an
\* item whose GUID the cache does not hold, with an item left behind it
C31_Witness ==
    /\ pc = "returned"
    /\ \E k \in DOMAIN log : log[k].res.err # NilErr /\ ~OverloadedAt(k)
                             /\ Excluded(log[k].item)
    /\ OverloadedAt(Len(log)) /\ Retried(log[Len(log)].item)
    /\ Len(log) < Len(Batch)

(***************************************************************************)
(* C32: the pacing sleep between consecutive summaries of one run          *)
(***************************************************************************)
\* C32: within one run of SummarizeAndCacheFeeds, whenever an item has been
\* summarized and another item is summarized after it, the loop slept the
\* pacing interval between the two, also when the first is the last item of
\* one feed and the second the first item of the next feed.
C32_SleepBetweenSummaries ==
    InRun => \A k \in DOMAIN log : k < Len(log) => log[k].slept

(***************************************************************************)
(* C33: which summaries the publish path takes for failures                *)
(***************************************************************************)
\* the feed item a cached item was made from
FeedItemOf(cached) == CHOOSE item \in PublishItems : item.GUID = cached.GUID

\* C33: PublishXML treats the summary of an item as a failure, leaving it
\* unescaped and without footer, exactly when the summary starts with the
\* error marker; what was saved for a failed summarize starts with the
\* marker, and what was saved for a successful summarize is HTML-escaped,
\* has its newlines converted and gets the comments or GUID footer.
C33_ErrorTaggedIffFailed ==
    applied.fn = "PublishXML" =>
        \A j \in DOMAIN applied.ret :
            LET item == applied.args[ItemOf(applied.ret[j], applied.args)]
                content == applied.ret[j].Content
                marked == IsPrefix(<<ErrorPrefixSummaryFailedWithError>>, item.Summary)
                escaped == ReplaceAllBold(ReplaceAll(EscapeString(item.Summary),
                                                     Newline, "<br>"))
            IN  /\ content = IF marked THEN ReplaceAllBold(item.Summary)
                             ELSE escaped \o LinkFooter(item)
                /\ item.Summary \in SummariesSaved(FeedItemOf(item), TRUE) => marked
                /\ item.Summary \in SummariesSaved(FeedItemOf(item), FALSE) =>
                      content = escaped \o LinkFooter(item)

(***************************************************************************)
(* C34: what is saved can be found                                         *)
(***************************************************************************)
\* C34: right after a Save of an item, made on memCache and on dbCache,
\* Exists of the item's GUID is true in both, and when the cache stores no
\* more records than the cap of List, every List(true) holds a record with
\* that GUID; also when DeleteOlderThan1Month removed a record with the GUID
\* before.
C34_SavedIsFound ==
    [][Called("Save") =>
          /\ Exists(cache', op'.guid)
          /\ dbExists(db', op'.guid)
          /\ Cardinality(DOMAIN cache') <= listLimit =>
                \A listed \in List(cache', TRUE) : op'.guid \in GUIDsOf(listed)
          /\ Len(db') <= listLimit =>
                \A listed \in dbList(db', TRUE) : op'.guid \in GUIDsOf(listed)]_vars

(***************************************************************************)
(* C35: one generation call per item                                       *)
(***************************************************************************)
\* C35: every pass of the loop of SummarizeAndCacheFeeds advances the
\* rotation counter by at most one: by none when the content type is not
\* summarizable, by one on every other path. When the fetch succeeded and the
\* generation failed, summarize did not take the URL-context path and returns
\* the failure text made of that error.
C35_OneGenerationPerItem ==
    [][pos' = pos + 1 =>
          LET made == reqCount' - reqCount
              r == log'[pos'].res
          IN  /\ made \in {0, 1}
              /\ made = 0 <=> last'.path = "unsupported"
              /\ (last'.fetched.attempted /\ ~last'.fetchFailed /\ r.err # NilErr) =>
                    /\ last'.path \in {"text", "file", "unsupported"}
                    /\ r.summarizedContent =
                          <<ErrorPrefixSummaryFailedWithError, ": ">> \o ErrToStr(r.err)]_vars

\* the first item was fetched, its generation failed with another error than
\* overload, and the counter stands at one
C35_Witness ==
    /\ pc = "running" /\ pos = 1 /\ reqCount = 1
    /\ last.path \in {"text", "file"}
    /\ log[1].res.err # NilErr /\ ~OverloadedAt(1)

(***************************************************************************)
(* C36: Client.fetch terminates within its budget                          *)
(***************************************************************************)
\* the activations of Client.fetch so far, and the last tries without scrapper
Activations == {i \in DOMAIN attempts : ~attempts[i].lastTry}

LastTries == {i \in DOMAIN attempts : attempts[i].lastTry}

\* the attempts stay within the budget, no activation has a negative budget,
\* and what is returned is the result of the last attempt
WithinBudget ==
    /\ remainingRetryCount \in 0..budget
    /\ Cardinality(Activations) <= budget + 1
    /\ Cardinality(LastTries) <= 1
    /\ \A i \in Activations : attempts[i].remaining = budget - (i - 1)
    /\ \A i \in LastTries : i = Len(attempts) /\ i > 1
    /\ fpc = "done" =>
          /\ Len(attempts) >= 1
          /\ fetchRet.returned
          /\ fetchRet.result = attempts[Len(attempts)].result
          /\ fetchRet.failed = attempts[Len(attempts)].failed

\* C36: a call of Client.fetch with budget N >= 0 returns; it makes at most
\* N + 1 attempts and at most one last try without the scrapper after them,
\* no activation runs with a negative budget, and the call returns what the
\* last attempt made gave.
C36_Terminates ==
    /\ []WithinBudget
    /\ (fpc = "calling") ~> (fpc = "done")

\* a call with the whole budget and a scrapper has returned after every
\* attempt failed but the last try without the scrapper
C36_Witness ==
    /\ fpc = "done" /\ budget = maxRetryCount
    /\ Cardinality(Activations) = budget + 1
    /\ Cardinality(LastTries) = 1
    /\ ~fetchRet.failed

(***************************************************************************)
(* C37: what Client.fetch returns with a nil error                         *)
(***************************************************************************)
\* C37: whenever Client.fetch returns a nil error, the content it returns is
\* not empty and the content type is one summarize can use, text-like or
\* PDF; also when the scrapper gave no error and no text.
C37_NonEmptyContent ==
    (fpc = "done" /\ fetchRet.result.err = NilErr) =>
        /\ fetchRet.result.content # <<>>
        /\ \/ isTextFormattableContent(fetchRet.result.contentType)
           \/ isFileContent(fetchRet.result.contentType)

(***************************************************************************)
(* C39: a failing source and the other sources                             *)
(***************************************************************************)
\* the configured sources that failed in the last FetchFeeds call, in order
FailedSources ==
    SelectSeq([k \in DOMAIN feedsURLs |-> k],
              LAMBDA k : fetchCall.results[k].err # NilErr)

\* C39: when FetchFeeds has returned, its result holds one feed per source
\* that was fetched and parsed, in the order of the configuration, whatever
\* sources failed before or after it (no connection, a status other than
\* 200, an unreadable body, a document that does not parse); the error is
\* non-nil exactly when a source failed, and then joins one error per failed
\* source, in order.
C39_FailedSourcesJoined ==
    (pc = "fetched" /\ fetchCall.called) =>
        /\ Len(feeds) = Len(SuccessfulSources)
        /\ Len(feeds) + Len(FailedSources) = Len(feedsURLs)
        /\ \A f \in DOMAIN feeds :
              \A i \in DOMAIN feeds[f].Items :
                  \E d \in DOMAIN SuccessfulSources[f].Items :
                      SuccessfulSources[f].Items[d] = feeds[f].Items[i]
        /\ fetchErr # NilErr <=> Len(FailedSources) > 0
        /\ fetchErr # NilErr =>
              /\ Len(fetchErr.errs) = Len(FailedSources)
              /\ \A e \in DOMAIN fetchErr.errs :
                    fetchErr.errs[e] = fetchCall.results[FailedSources[e]].err

\* the first source failed and the second was fetched all the same
C39_Witness ==
    /\ pc = "fetched" /\ fetchCall.called
    /\ fetchCall.results[1].err # NilErr
    /\ fetchCall.results[2].err = NilErr
    /\ Len(feeds) = 1 /\ Len(feeds[1].Items) > 0
    /\ fetchErr # NilErr

====
